---------------------------- MODULE Spec2Model ----------------------------
(***************************************************************************)
(* Model of the multi-timeframe signal confirmation pipeline of the        *)
(* day_trading_bot package: the supply/demand zone engine                  *)
(* (supply_demand.py), the chart pattern selector (pattern_detector.py),   *)
(* the reversal consensus engine (reversal_signal.py) and the trade        *)
(* decision orchestrator (main.py).                                        *)
(*                                                                         *)
(* Prices are integers (ticks).  A zone is a pair <<low, high>>.  Python   *)
(* None is the string "None".                                              *)
(***************************************************************************)
EXTENDS Integers, Sequences, FiniteSets, TLC

VARIABLES
    \* ---- zone engine (supply_demand.py) -------------------------------
    zbars,        \* the bar series df handed to find_zones, oldest first
    zmax,         \* the max_zones argument of the call
    zpc,          \* "feed": bars arrive; "found": find_zones returned;
                  \* "args": a list for _merge_zones is built;
                  \* "merged": _merge_zones returned
    zcand,        \* the lists handed to _merge_zones: <<demand, supply>>
    zdemand,      \* first list returned (the demand zones)
    zsupply       \* second list returned (the supply zones)

zoneVars == <<zbars, zmax, zpc, zcand, zdemand, zsupply>>

VARIABLES
    \* ---- chart pattern selector (pattern_detector.py) -----------------
    pmatched,     \* indices of `patterns` whose predicate func(df) is true
    pexpected,    \* the expected_direction argument
    ppc,          \* "call" before detect_pattern runs, "done" after
    presult       \* the value detect_pattern returned

patVars == <<pmatched, pexpected, ppc, presult>>

VARIABLES
    \* ---- reversal consensus engine (reversal_signal.py) ---------------
    rdirection,            \* the direction argument
    ri,                    \* timeframes of TIMEFRAMES already visited
    confirmed_timeframes,  \* labels appended by line 121
    rrejected,             \* number of timeframes rejected at line 124
    rpc,                   \* "loop" or "done"
    rresult                \* the value detect_reversal_signal returned

revVars == <<rdirection, ri, confirmed_timeframes, rrejected, rpc, rresult>>

VARIABLES
    \* ---- multi-timeframe fallback scan (find_zones_fallback) -----------
    fdirection,   \* the direction argument
    curr_price,   \* the curr_price argument
    zone_tol,     \* the tolerance fixed by lines 108-114
    m15_df,       \* df_dict.get("M15"): whether it holds PATTERN_LOOKBACK
                  \* bars, and the entries of `patterns` whose predicate
                  \* holds on its last PATTERN_LOOKBACK bars
    fseen,        \* df_dict.get(tf) of the timeframes visited so far: a
                  \* record [have, bars], have = FALSE for None
    fcalls,       \* per visited timeframe, the confirmed lists of the
                  \* detect_reversal_signal calls made for it
    fpc,          \* "scan" or "done"
    fresult       \* the triple returned: [dz, sz, tf]

fallVars == <<fdirection, curr_price, zone_tol, m15_df, fseen, fcalls, fpc,
              fresult>>

VARIABLES
    \* ---- trade decision orchestrator (main.py: get_trade_decision) ----
    opc,            \* the stage the evaluation is at
    momentum_dir,   \* momentum_signal(df_m15)
    bollinger_dir,  \* bollinger_signal(df_m15)
    rsi_dir,        \* rsi_signal(df_m15)
    direction,      \* the voted direction
    df_tf_chart,    \* the entries of `patterns` whose predicate holds on
                    \* df_m15.tail(CHART_PATTERN_LOOKBACK)
    score,          \* in hundredths
    reasons,        \* the list `reasons`, a sequence of [key, value]
    reversal_gate,  \* confirmed list of the reversal engine call of line 279
    scan_calls,     \* confirmed lists of the reversal engine calls made by
                    \* the zone scan of line 284
    last_close,     \* df_m5["close"].iloc[-1]
    df_dict,        \* the frames M30, H1, H2, H4, D1 of line 283
    df_m15,         \* calculate_indicators(df_m15) as the zone scan reads
                    \* it: its columns, its last ATR, and the entries of
                    \* `patterns` that hold on its last PATTERN_LOOKBACK bars
    scan_tol,       \* the zone_tol fixed by the scan of line 285
    nearest,        \* the nearest zone the scan of line 285 printed
    zones_d,
    zones_s,
    tf_used,
    df_candles,     \* what the candlestick predicates of the direction
                    \* see in df_m15.tail(CANDLE_PATTERN_LOOKBACK)
    message,        \* the [DATA] / [REJECTED] / [SKIP] line emitted
    decision,       \* the value get_trade_decision returned
    _LAST_LINE      \* utils/logger.py: the last message print_debug saw

signalVars == <<momentum_dir, bollinger_dir, rsi_dir>>
gateVars == <<reversal_gate, scan_calls, last_close, df_dict, df_m15,
              scan_tol, nearest, zones_d, zones_s, tf_used, df_candles>>
orchVars == <<opc, signalVars, direction, df_tf_chart, score, reasons,
              gateVars, message, decision, _LAST_LINE>>

VARIABLES
    \* ---- configuration (config.py) ------------------------------------
    USE_REVERSAL_FILTER   \* the toggle of config.py line 97

cfgVars == <<USE_REVERSAL_FILTER>>

VARIABLES
    \* ---- level finder (support_resistance.py: find_nearest_levels) ----
    ldf,           \* the lows and highs of the series df, oldest first
    lrecent_close, \* float(df['close'].iloc[-1])
    lwindow,       \* the window argument
    llookback,     \* the lookback argument
    lmax_levels,   \* the max_levels argument
    lpc,           \* "feed": bars arrive; "done": the call returned;
                   \* "raised": the call raised
    lsupports,     \* first list returned
    lresistances   \* second list returned

levVars == <<ldf, lrecent_close, lwindow, llookback, lmax_levels, lpc,
             lsupports, lresistances>>

VARIABLES
    \* ---- candlestick classifier (candle_patterns.py) -------------------
    kdf,          \* the series df handed to the predicates, oldest first
    kpc,          \* "feed": bars arrive; "done": the predicates ran
    kresult       \* per predicate, whether it raised and what it returned

candVars == <<kdf, kpc, kresult>>

VARIABLES
    \* ---- one cycle of run_bot (main.py lines 342-427) ------------------
    bpc,          \* where run_bot is
    stop_flag,    \* os.path.exists(STOP_FLAG)
    bvisited,     \* per symbol of ACTIVE_SYMBOLS the loop has finished
                  \* with, how its iteration ended
    best_trade,   \* [sym, confidence]; sym = 0 for None
    placed,       \* the symbols place_trade was called for
    managed,      \* manage_open_trades was called
    bexit         \* why run_bot returned

botVars == <<bpc, stop_flag, bvisited, best_trade, placed, managed, bexit>>

VARIABLES
    \* ---- direction-vote signals (momentum_strategy.py, bollinger_strategy.py)
    sdf,          \* the closes of the series df, oldest first
    spc,          \* "ready", then the signal that ran
    sresult       \* whether the signal raised and what it returned

sigVars == <<sdf, spc, sresult>>

VARIABLES
    \* ---- order placement (execution.py: place_trade) -------------------
    xin,          \* the arguments of the call and the broker's symbol info
    xpc,          \* "ready", then "sent" or "skipped"
    xorder        \* the volume of the request handed to order_send

execVars == <<xin, xpc, xorder>>

VARIABLES
    \* ---- stop management (trade_manager.py: manage_open_trades) --------
    mposition,    \* the open position: type, price_open, sl, tp
    mprice,       \* the price of the last tick (bid for a BUY, ask for a SELL)
    mpc,          \* "tick": between two calls; "sent": a request is at the broker
    mrequest      \* the modification request at the broker, if any

mgrVars == <<mposition, mprice, mpc, mrequest>>

VARIABLES
    \* ---- one timeframe of the reversal engine (reversal_signal.py 71-124)
    tdata,        \* what fetch_candles_fn delivered for the timeframe
    tdir,         \* the direction argument
    tpc,          \* "fetched", then "judged"
    tchecks       \* near_zone, broke_level and the verdict of the timeframe

tfVars == <<tdata, tdir, tpc, tchecks>>

VARIABLES
    \* ---- chart pattern detectors on a window (pattern_detector.py) -----
    edf,          \* the window df handed to detect_pattern, oldest first
    escipy,       \* whether the import of scipy.signal succeeded (line 8)
    eexpected,    \* the expected_direction argument
    epc,          \* "ready", then "done"
    eresult       \* what detect_pattern returned

extrVars == <<edf, escipy, eexpected, epc, eresult>>

moreVars == <<sigVars, execVars, mgrVars, tfVars, extrVars>>

extVars == <<cfgVars, levVars, candVars, botVars, moreVars>>

\* everything but the level finder, the classifier and run_bot
coreVars == <<zoneVars, patVars, revVars, fallVars, orchVars, cfgVars,
              moreVars>>

\* everything but the signals, the order placement and the stop management
baseVars == <<zoneVars, patVars, revVars, fallVars, orchVars, cfgVars,
              levVars, candVars, botVars>>

vars == <<zoneVars, patVars, revVars, fallVars, orchVars, extVars>>

-----------------------------------------------------------------------------
(* Bounds of the model *)
MaxPrice == 3     \* prices range over 0..MaxPrice
MaxBars == 6      \* longest bar series fed to find_zones
Window == 2       \* the window argument of find_zones (10..30 in the wrappers)
MaxCand == 3      \* longest list handed directly to _merge_zones
MaxLevel == 1     \* swing levels and closes of a timeframe range over 0..MaxLevel
MaxOpposing == 2  \* cap on the counted opposing candles of a timeframe
MaxFrame == 2     \* closes of the bar series of the fallback scan: 0..MaxFrame
MaxClose == 2     \* curr_price of the fallback scan ranges over 1..MaxClose
MaxTol == 1       \* zone_tol ranges over 0..MaxTol
MaxZonedTF == 2   \* the orchestrator's snapshots carry zones on the
                  \* MaxZonedTF fastest timeframes of the scan only
MaxAtr == 2       \* the last M15 ATR ranges over 2, 4, .., 2 * MaxAtr ticks
LevelPrice == 2   \* lows and highs of the level finder range over 0..LevelPrice
LevelBars == 5    \* longest series handed to find_nearest_levels
LevelWindow == 2  \* its window argument ranges over 1..LevelWindow
LevelLookback == 2 \* its lookback argument is LevelLookback or the default
LevelCap == 2     \* its max_levels argument ranges over 1..LevelCap
CandlePrice == 3  \* candle prices range over 0..CandlePrice ticks
CandleBars == 3   \* longest series handed to the candlestick predicates
NumSymbols == 3   \* symbols in ACTIVE_SYMBOLS
MaxConfidence == 2 \* confidences of the Decisions range over 1..MaxConfidence
SignalFlat == 19  \* longest flat run at the start of a signal series
SignalTail == 2   \* free closes after the flat run
SignalPrice == 2  \* closes of a signal series range over 0..SignalPrice
TfLevel == 3      \* swing levels and closes of the judged timeframe: 0..TfLevel
PatternBase == 10000 \* lowest price of a detector window, in ticks of 0.0001
PatternStep == 300 \* distance of two price levels of a detector window, in ticks
PatternPrice == 1 \* price levels of a detector window: 0..PatternPrice steps
PatternFree == 3  \* bars of any kind at the start of a detector window
PatternFlat == 9  \* longest run of equal bars at its end
MaxBalance == 4   \* account balances range over 0..MaxBalance dollars
MaxUnitRisk == 3  \* cents a hundredth of a lot loses at the stop: 1..MaxUnitRisk
MaxLot == 4       \* volumes and volume_max range over 1..MaxLot hundredths
MaxStep == 2      \* volume_step and volume_min range over 1..MaxStep hundredths
MgrPrice == 6     \* prices of the managed position range over 1..MgrPrice points

Prices == 0..MaxPrice

Min2(a, b) == IF a <= b THEN a ELSE b
Max2(a, b) == IF a >= b THEN a ELSE b
Abs(x) == IF x < 0 THEN -x ELSE x

SetMin(S) == CHOOSE x \in S : \A y \in S : x <= y
SetMax(S) == CHOOSE x \in S : \A y \in S : x >= y

-----------------------------------------------------------------------------
(* supply_demand.py *)

ENABLE_ATR_FILTER == FALSE
ENABLE_BREAKOUT_FILTER == FALSE
DEFAULT_MAX_ZONES == 3
ATR_PERIOD == 14

\* merged[-max_zones:] (max_zones >= 1)
LastN(s, n) ==
    IF Len(s) <= n THEN s ELSE SubSeq(s, Len(s) - n + 1, Len(s))

\* the overlap test of line 36: not (high < ex_low or low > ex_high)
Overlaps(low, high, ex) == ~(high < ex[1] \/ low > ex[2])

\* lines 35-40: union into the first overlapping merged zone, else append
MergeOne(merged, low, high) ==
    LET hit == {i \in 1..Len(merged) : Overlaps(low, high, merged[i])}
    IN  IF hit = {}
        THEN Append(merged, <<low, high>>)
        ELSE LET i == SetMin(hit)
             IN  [merged EXCEPT ![i] = <<Min2(low, merged[i][1]),
                                         Max2(high, merged[i][2])>>]

\* mutant: the degenerate-interval skip of lines 33-34 is lost
_merge_zones_keep_degenerate(zones, max_zones) ==
    LET acc[k \in 0..Len(zones)] ==
            IF k = 0 THEN <<>>
            ELSE MergeOne(acc[k - 1], zones[k][1], zones[k][2])
    IN  LastN(acc[Len(zones)], max_zones)

\* _merge_zones(zones, max_zones), lines 30-41
_merge_zones(zones, max_zones) ==
    LET acc[k \in 0..Len(zones)] ==
            IF k = 0 THEN <<>>
            ELSE IF zones[k][1] = zones[k][2]
                 THEN acc[k - 1]
                 ELSE MergeOne(acc[k - 1], zones[k][1], zones[k][2])
    IN  LastN(acc[Len(zones)], max_zones)

\* the true range column of _atr (indicators.py lines 38-46), bar i of df
TrueRange(df, i) ==
    LET tr1 == df[i].high - df[i].low
    IN  IF i = 1 THEN tr1
        ELSE Max2(tr1, Max2(Abs(df[i].high - df[i - 1].close),
                            Abs(df[i].low - df[i - 1].close)))

RECURSIVE SumTR(_, _, _)
SumTR(df, from, to) ==
    IF from > to THEN 0 ELSE TrueRange(df, from) + SumTR(df, from + 1, to)

\* ATR_PERIOD times df["atr_14"].iat[-1]; -1 stands for NaN (fewer than
\* ATR_PERIOD true ranges in the rolling window)
AtrSum(df) ==
    IF Len(df) < ATR_PERIOD THEN -1
    ELSE SumTR(df, Len(df) - ATR_PERIOD + 1, Len(df))

\* w["low"].min(), w["high"].max() of the window starting at bar `start`
WinLow(df, start, window) ==
    SetMin({df[i].low : i \in start..(start + window - 1)})
WinHigh(df, start, window) ==
    SetMax({df[i].high : i \in start..(start + window - 1)})

\* lines 67-74 for the window starting at `start` (1-based); range_factor
\* is 1.0 and breakout_mult 0.1 in every wrapper; a comparison with NaN is
\* false
WindowOk(df, start, window) ==
    LET spread == WinHigh(df, start, window) - WinLow(df, start, window)
        move == Abs(df[start + window - 1].close - df[start].close)
        atrs == AtrSum(df)
        ok_spread == (~ENABLE_ATR_FILTER)
                        \/ (atrs >= 0 /\ spread * ATR_PERIOD < atrs)
        ok_break == (~ENABLE_BREAKOUT_FILTER)
                        \/ (atrs >= 0 /\ move * ATR_PERIOD * 10 > atrs)
    IN  ok_spread /\ ok_break

\* the candidate lists built by the loop of lines 65-81:
\* for start in range(len(df) - window)
Candidates(df, window) ==
    LET n == IF Len(df) > window THEN Len(df) - window ELSE 0
        acc[k \in 0..n] ==
            IF k = 0 THEN <<(<<>>), (<<>>)>>
            ELSE LET low == WinLow(df, k, window)
                     high == WinHigh(df, k, window)
                     fc == df[k].close
                     lc == df[k + window - 1].close
                     d == acc[k - 1][1]
                     s == acc[k - 1][2]
                 IN  IF ~WindowOk(df, k, window) \/ low = high
                     THEN acc[k - 1]
                     ELSE IF lc > fc
                          THEN <<Append(d, <<low, high>>), s>>
                          ELSE <<d, Append(s, <<low, high>>)>>
    IN  acc[n]

\* find_zones(df, window, range_factor, breakout_mult, max_zones), line 83
find_zones(df, window, max_zones) ==
    LET c == Candidates(df, window)
    IN  <<_merge_zones(c[1], max_zones), _merge_zones(c[2], max_zones)>>

-----------------------------------------------------------------------------
(* pattern_detector.py *)

None == "None"

\* the list `patterns` of detect_pattern, lines 147-160
patterns == <<
    [func |-> "detect_double_bottom", direction |-> "BUY", name |-> "Double Bottom"],
    [func |-> "detect_double_top", direction |-> "SELL", name |-> "Double Top"],
    [func |-> "detect_head_and_shoulders", direction |-> "SELL", name |-> "Head and Shoulders"],
    [func |-> "detect_inverse_head_and_shoulders", direction |-> "BUY", name |-> "Inverse Head and Shoulders"],
    [func |-> "detect_ascending_triangle", direction |-> "BUY", name |-> "Ascending Triangle"],
    [func |-> "detect_descending_triangle", direction |-> "SELL", name |-> "Descending Triangle"],
    [func |-> "detect_symmetric_triangle", direction |-> None, name |-> "Symmetric Triangle"],
    [func |-> "detect_wedge", direction |-> None, name |-> "Wedge"],
    [func |-> "detect_flag", direction |-> None, name |-> "Flag"],
    [func |-> "detect_pennant", direction |-> None, name |-> "Pennant"],
    [func |-> "detect_cup_and_handle", direction |-> "BUY", name |-> "Cup and Handle"],
    [func |-> "detect_rectangle", direction |-> None, name |-> "Rectangle"] >>

\* the dict built at lines 165 and 167 for entry i of `patterns`
PatternMatch(i) == [direction |-> patterns[i].direction, pattern |-> patterns[i].name]

\* the return value None of detect_pattern
NoPattern == [direction |-> None, pattern |-> None]

\* mutant: the preference for expected_direction (lines 164-165) is lost,
\* the first matching pattern is returned
detect_pattern_first_match(matched, expected_direction) ==
    IF matched = {} THEN NoPattern ELSE PatternMatch(SetMin(matched))

\* detect_pattern(df, expected_direction), lines 161-168; `matched` is the
\* set of entries i with patterns[i].func(df) true.  scan[k] is the loop
\* state after k entries: the value returned at line 165, if any, and
\* `fallback`
detect_pattern(matched, expected_direction) ==
    LET scan[k \in 0..Len(patterns)] ==
            IF k = 0 THEN [returned |-> FALSE, value |-> NoPattern, fallback |-> NoPattern]
            ELSE LET prev == scan[k - 1]
                 IN  IF prev.returned \/ k \notin matched THEN prev
                     ELSE IF expected_direction # None
                             /\ patterns[k].direction = expected_direction
                          THEN [prev EXCEPT !.returned = TRUE,
                                            !.value = PatternMatch(k)]
                          ELSE IF prev.fallback = NoPattern
                               THEN [prev EXCEPT !.fallback = PatternMatch(k)]
                               ELSE prev
        end == scan[Len(patterns)]
    IN  IF end.returned THEN end.value ELSE end.fallback

-----------------------------------------------------------------------------
(* Each specification below runs one component; the others stay idle *)

Directions == {"BUY", "SELL"}

ZIdle ==
    /\ zbars = <<>>
    /\ zmax = DEFAULT_MAX_ZONES
    /\ zpc = "idle"
    /\ zcand = <<(<<>>), (<<>>)>>
    /\ zdemand = <<>>
    /\ zsupply = <<>>

PIdle ==
    /\ pmatched = {}
    /\ pexpected = None
    /\ ppc = "idle"
    /\ presult = NoPattern

RIdle ==
    /\ rdirection = None
    /\ ri = 0
    /\ confirmed_timeframes = <<>>
    /\ rrejected = 0
    /\ rpc = "idle"
    /\ rresult = FALSE

FIdle ==
    /\ fdirection = None
    /\ curr_price = 0
    /\ zone_tol = 0
    /\ m15_df = [have |-> FALSE, matched |-> {}]
    /\ fseen = <<>>
    /\ fcalls = <<>>
    /\ fpc = "idle"
    /\ fresult = [dz |-> <<>>, sz |-> <<>>, tf |-> None]

\* df_m15 before line 198 assigns it
NoFrame == [have |-> FALSE, columns |-> {}, atr_14 |-> 0, matched |-> {}]

\* nearest, nearest_tf = None, None (supply_demand.py line 167)
NoNearest == [zone |-> <<>>, tf |-> None]

\* the value None returned by get_trade_decision
NoDecision ==
    [direction |-> None, confidence |-> 0, confirmations |-> 0,
     reasons |-> <<>>]

\* the locals of get_trade_decision before the stage that assigns them
OLocals ==
    /\ momentum_dir = None /\ bollinger_dir = None /\ rsi_dir = None
    /\ direction = None
    /\ df_tf_chart = {}
    /\ score = 0
    /\ reasons = <<>>
    /\ reversal_gate = <<>>
    /\ scan_calls = <<>>
    /\ last_close = 0
    /\ df_dict = <<>>
    /\ df_m15 = NoFrame
    /\ scan_tol = 0
    /\ nearest = NoNearest
    /\ zones_d = <<>> /\ zones_s = <<>>
    /\ tf_used = None
    /\ df_candles = None
    /\ message = None
    /\ decision = NoDecision

OIdle == opc = "idle" /\ OLocals /\ _LAST_LINE = None

LIdle ==
    /\ ldf = <<>>
    /\ lrecent_close = 0
    /\ lwindow = 0 /\ llookback = 0 /\ lmax_levels = 0
    /\ lpc = "idle"
    /\ lsupports = <<>> /\ lresistances = <<>>

KIdle ==
    /\ kdf = <<>>
    /\ kpc = "idle"
    /\ kresult = <<>>

\* best_trade = None
NoTrade == [sym |-> 0, confidence |-> 0]

BIdle ==
    /\ bpc = "idle"
    /\ stop_flag = FALSE
    /\ bvisited = <<>>
    /\ best_trade = NoTrade
    /\ placed = <<>>
    /\ managed = FALSE
    /\ bexit = None

SIdle ==
    /\ sdf = <<>>
    /\ spc = "idle"
    /\ sresult = None

XIdle ==
    /\ xin = None
    /\ xpc = "idle"
    /\ xorder = 0

\* no modification request
NoRequest == [sent |-> FALSE, sl |-> 0, tp |-> 0]

MIdle ==
    /\ mposition = None
    /\ mprice = 0
    /\ mpc = "idle"
    /\ mrequest = NoRequest

TIdle ==
    /\ tdata = None
    /\ tdir = None
    /\ tpc = "idle"
    /\ tchecks = None

EIdle ==
    /\ edf = <<>>
    /\ escipy = FALSE
    /\ eexpected = None
    /\ epc = "idle"
    /\ eresult = [direction |-> None, pattern |-> None]

MoreIdle == SIdle /\ XIdle /\ MIdle /\ TIdle /\ EIdle

\* config.py as shipped: USE_REVERSAL_FILTER = True (line 97)
CfgShipped == USE_REVERSAL_FILTER = TRUE

\* config.py with the toggle set either way
CfgAny == USE_REVERSAL_FILTER \in BOOLEAN

-----------------------------------------------------------------------------
(* The chart pattern selector on the outcomes of its twelve predicates *)

PStart ==
    /\ pmatched \in SUBSET (1..Len(patterns))
    /\ pexpected \in Directions \cup {None}
    /\ ppc = "call"
    /\ presult = NoPattern

\* detect_pattern(df, expected_direction=pexpected) runs
Pdetect_pattern ==
    /\ ppc = "call"
    /\ presult' = detect_pattern(pmatched, pexpected)
    /\ ppc' = "done"
    /\ UNCHANGED <<pmatched, pexpected>>
    /\ UNCHANGED <<zoneVars, revVars, fallVars, orchVars, extVars>>

\* the caller drops the result and calls again with another direction
PCallAgain ==
    /\ ppc = "done"
    /\ \E e \in Directions \cup {None} : pexpected' = e
    /\ presult' = NoPattern
    /\ ppc' = "call"
    /\ UNCHANGED pmatched
    /\ UNCHANGED <<zoneVars, revVars, fallVars, orchVars, extVars>>

PNext == Pdetect_pattern \/ PCallAgain

PInit == PStart /\ ZIdle /\ RIdle /\ FIdle /\ OIdle /\ CfgShipped
        /\ LIdle /\ KIdle /\ BIdle
        /\ MoreIdle

SpecPattern == PInit /\ [][PNext]_vars

\* entries of `patterns` that match and carry direction d
MatchedWith(d) == {i \in pmatched : patterns[i].direction = d}

\* C9: detect_pattern returns at most one match: the first matching entry
\* with the expected direction if a direction is given and such an entry
\* matches; else the first matching entry whatever its direction; else none.
C9_BestMatch ==
    ppc = "done" =>
        IF pexpected # None /\ MatchedWith(pexpected) # {}
        THEN presult = PatternMatch(SetMin(MatchedWith(pexpected)))
        ELSE IF pmatched # {}
             THEN presult = PatternMatch(SetMin(pmatched))
             ELSE presult = NoPattern

\* C9 witness: a SELL pattern and a neutral pattern precede the first BUY
\* match in the list, BUY is expected and the BUY match is returned
C9_Witness ==
    /\ ppc = "done"
    /\ pexpected = "BUY"
    /\ pmatched = {2, 7, 11}
    /\ presult = [direction |-> "BUY", pattern |-> "Cup and Handle"]

-----------------------------------------------------------------------------
(* reversal_signal.py *)

\* TIMEFRAMES, lines 38-47, in insertion order
TIMEFRAMES == <<"M1", "M5", "M15", "M30", "H1", "H2", "H4", "D1">>

\* line 126
REVERSAL_QUORUM == 4

\* prices of this engine are in ticks of 20 pips: sr_threshold = 20 * pip
\* (line 99) is one tick; twice breakout_buffer = max(10 * pip,
\* 0.001 * current_price) (line 103) is max(1, 0.002 * price) ticks
SR_THRESHOLD == 1

\* lines 37-39 of support_resistance.py: the levels on the right side of
\* recent_close, nearest first, at most max_levels; `swings` are the swing
\* lows (highs) found by the scan
SortedDesc(S) ==
    LET f[T \in SUBSET S] ==
            IF T = {} THEN <<>> ELSE <<SetMax(T)>> \o f[T \ {SetMax(T)}]
    IN  f[S]
SortedAsc(S) ==
    LET f[T \in SUBSET S] ==
            IF T = {} THEN <<>> ELSE <<SetMin(T)>> \o f[T \ {SetMin(T)}]
    IN  f[S]
FirstN(s, n) == IF Len(s) <= n THEN s ELSE SubSeq(s, 1, n)
\* mutant: the swing lows are not compared with the close
support_levels_unfiltered(swing_lows, recent_close, max_levels) ==
    FirstN(SortedDesc(swing_lows), max_levels)

support_levels(swing_lows, recent_close, max_levels) ==
    FirstN(SortedDesc({x \in swing_lows : x < recent_close}), max_levels)
resistance_levels(swing_highs, recent_close, max_levels) ==
    FirstN(SortedAsc({x \in swing_highs : x > recent_close}), max_levels)

Range(s) == {s[i] : i \in 1..Len(s)}

\* is_near_support_or_resistance, support_resistance.py lines 62-73
is_near_support_or_resistance(price, supports, resistances, threshold) ==
    \E lvl \in Range(supports) \cup Range(resistances) :
        Abs(price - lvl) <= threshold

\* line 96: the levels of the timeframe, from its swing points and close
TimeframeLevels(tf) ==
    [supports |-> support_levels(tf.swing_lows, tf.c1, 3),
     resistances |-> resistance_levels(tf.swing_highs, tf.c1, 3)]

\* line 100
NearZone(tf) ==
    is_near_support_or_resistance(tf.c1, TimeframeLevels(tf).supports,
                                  TimeframeLevels(tf).resistances,
                                  SR_THRESHOLD)

\* lines 103-108, in 2000ths of a tick
BrokeLevel(tf, dir) ==
    LET current_price == tf.c1
        supports == TimeframeLevels(tf).supports
        resistances == TimeframeLevels(tf).resistances
        buffer2000 == Max2(1000, 2 * current_price)
    IN  \/ /\ dir = "BUY" /\ resistances # <<>>
           /\ 2000 * current_price
                 > 2000 * SetMax(Range(resistances)) + buffer2000
        \/ /\ dir = "SELL" /\ supports # <<>>
           /\ 2000 * current_price
                 < 2000 * SetMin(Range(supports)) - buffer2000

\* lines 115-117
MomentumFading(tf) == Abs(tf.c1 - tf.c5) < Abs(tf.c5 - tf.c10)

\* mutant: a matching candlestick pattern confirms the timeframe even in
\* an ambiguous zone
TimeframeVerdictPatternFirst(tf, dir) ==
    IF tf.have # "full" THEN "skipped"
    ELSE IF tf.choppy THEN "skipped"
    ELSE IF tf.pattern_match THEN "confirmed"
    ELSE IF NearZone(tf) /\ ~BrokeLevel(tf, dir) THEN "skipped"
    ELSE IF MomentumFading(tf) /\ tf.opposing >= 2 THEN "confirmed"
    ELSE "rejected"

\* the verdict of one timeframe, lines 73-124.  tf is the fetched series
\* reduced to what the lines read:
\*   have: "None", "short" (fewer than TF_CANDLE_COUNTS bars) or "full"
\*   choppy: the test of line 89
\*   pattern_match: line 94
\*   swing_lows, swing_highs: the swing points find_nearest_levels scans
\*   c1, c5, c10: close.iloc[-1], close.iloc[-5], close.iloc[-10]
\*   opposing: candles whose sign is against `direction` (line 118)
TimeframeVerdict(tf, dir) ==
    IF tf.have # "full" THEN "skipped"
    ELSE IF tf.choppy THEN "skipped"
    ELSE
      LET reversing_candles == tf.opposing
      IN  IF NearZone(tf) /\ ~BrokeLevel(tf, dir) THEN "skipped"
          ELSE IF tf.pattern_match
                  \/ (MomentumFading(tf) /\ reversing_candles >= 2)
               THEN "confirmed"
               ELSE "rejected"

\* mutant: the quorum of line 126 is off by one
QuorumReachedStrict(confirmed) == Len(confirmed) > REVERSAL_QUORUM

\* lines 126-130: the final verdict
QuorumReached(confirmed) == Len(confirmed) >= REVERSAL_QUORUM

-----------------------------------------------------------------------------
(* The reversal consensus engine, one timeframe per step *)

Levels == 0..MaxLevel

\* what fetch_candles_fn can deliver for one timeframe; the fields that
\* lines 73-124 do not read for a series are left at a default
TimeframeDefault ==
    [have |-> "None", choppy |-> FALSE, pattern_match |-> FALSE,
     swing_lows |-> {}, swing_highs |-> {},
     c1 |-> 0, c5 |-> 0, c10 |-> 0, opposing |-> 0]
TimeframeData ==
    {[TimeframeDefault EXCEPT !.have = h] : h \in {"None", "short"}}
    \cup {[TimeframeDefault EXCEPT !.have = "full", !.choppy = TRUE]}
    \cup [have : {"full"}, choppy : {FALSE}, pattern_match : BOOLEAN,
          swing_lows : {S \in SUBSET Levels : Cardinality(S) <= 1},
          swing_highs : {S \in SUBSET Levels : Cardinality(S) <= 1},
          c1 : Levels, c5 : Levels, c10 : Levels, opposing : 0..MaxOpposing]

RStart ==
    /\ rdirection \in Directions
    /\ ri = 0
    /\ confirmed_timeframes = <<>>
    /\ rrejected = 0
    /\ rpc = "loop"
    /\ rresult = FALSE

\* one iteration of the loop of line 71
RTimeframe ==
    /\ rpc = "loop"
    /\ ri < Len(TIMEFRAMES)
    /\ \E tf \in TimeframeData :
          LET v == TimeframeVerdict(tf, rdirection)
          IN  /\ rrejected' =
                    IF v = "rejected" THEN rrejected + 1 ELSE rrejected
              /\ confirmed_timeframes' =
                    IF v = "confirmed"
                    THEN Append(confirmed_timeframes, TIMEFRAMES[ri + 1])
                    ELSE confirmed_timeframes
    /\ ri' = ri + 1
    /\ UNCHANGED <<rdirection, rpc, rresult>>
    /\ UNCHANGED <<zoneVars, patVars, fallVars, orchVars, extVars>>

\* lines 126-130
RReturn ==
    /\ rpc = "loop"
    /\ ri = Len(TIMEFRAMES)
    /\ rresult' = QuorumReached(confirmed_timeframes)
    /\ rpc' = "done"
    /\ UNCHANGED <<rdirection, ri, confirmed_timeframes, rrejected>>
    /\ UNCHANGED <<zoneVars, patVars, fallVars, orchVars, extVars>>

RNext == RTimeframe \/ RReturn

RInit == RStart /\ ZIdle /\ PIdle /\ FIdle /\ OIdle /\ CfgShipped
        /\ LIdle /\ KIdle /\ BIdle
        /\ MoreIdle

SpecReversal == RInit /\ [][RNext]_vars

\* C1: detect_reversal_signal returns true exactly when at least 4 of the
\* 8 ladder timeframes confirm; 4 confirming and 4 rejecting give true,
\* 3 confirming and 5 rejecting give false.
C1_Quorum ==
    rpc = "done" =>
        /\ ri = 8
        /\ Range(confirmed_timeframes) \subseteq Range(TIMEFRAMES)
        /\ Len(confirmed_timeframes) + rrejected <= 8
        /\ rresult <=> Cardinality(Range(confirmed_timeframes)) >= 4
        /\ Len(confirmed_timeframes) = Cardinality(Range(confirmed_timeframes))

\* C1 witness: exactly 4 confirming and 4 rejecting timeframes, result true
C1_Witness ==
    /\ rpc = "done"
    /\ Len(confirmed_timeframes) = 4
    /\ rrejected = 4
    /\ rresult

\* C1 witness, the other half: 3 confirming and 5 rejecting, result false
C1_WitnessBelow ==
    /\ rpc = "done"
    /\ Len(confirmed_timeframes) = 3
    /\ rrejected = 5
    /\ ~rresult

-----------------------------------------------------------------------------
(* The zone engine: find_zones on a growing bar series, and _merge_zones   *)
(* on a list of candidate intervals                                        *)

\* one-tick bars: open, high, low and close coincide
ZoneBars == {[low |-> p, high |-> p, close |-> p] : p \in Prices}

\* candidate intervals (low, high) with low <= high
Intervals == {z \in Prices \X Prices : z[1] <= z[2]}

\* max_zones of the wrappers find_m30_zones .. find_d1_zones (lines 87-99)
WrapperMaxZones == {2, DEFAULT_MAX_ZONES}

ZStart ==
    /\ zbars = <<>>
    /\ zmax \in 1..DEFAULT_MAX_ZONES
    /\ zpc \in {"feed", "args"}
    /\ zpc = "feed" => zmax \in WrapperMaxZones
    /\ zcand = <<(<<>>), (<<>>)>>
    /\ zdemand = <<>>
    /\ zsupply = <<>>

\* the data provider appends one bar
ZAppendBar ==
    /\ zpc = "feed"
    /\ Len(zbars) < MaxBars
    /\ \E b \in ZoneBars : zbars' = Append(zbars, b)
    /\ UNCHANGED <<zmax, zpc, zcand, zdemand, zsupply>>
    /\ UNCHANGED <<patVars, revVars, fallVars, orchVars, extVars>>

\* find_zones(df, window=Window, max_zones=zmax) runs on the series
Zfind_zones ==
    /\ zpc = "feed"
    /\ Len(zbars) >= 1
    /\ LET r == find_zones(zbars, Window, zmax)
       IN  /\ zdemand' = r[1]
           /\ zsupply' = r[2]
    /\ zcand' = Candidates(zbars, Window)
    /\ zpc' = "found"
    /\ UNCHANGED <<zbars, zmax>>
    /\ UNCHANGED <<patVars, revVars, fallVars, orchVars, extVars>>

\* a caller of _merge_zones adds one interval to its argument list
ZAddCandidate ==
    /\ zpc = "args"
    /\ Len(zcand[1]) < MaxCand
    /\ \E z \in Intervals : zcand' = <<Append(zcand[1], z), zcand[2]>>
    /\ UNCHANGED <<zbars, zmax, zpc, zdemand, zsupply>>
    /\ UNCHANGED <<patVars, revVars, fallVars, orchVars, extVars>>

\* _merge_zones(zones, max_zones=zmax) runs on the list
Z_merge_zones ==
    /\ zpc = "args"
    /\ zdemand' = _merge_zones(zcand[1], zmax)
    /\ zpc' = "merged"
    /\ UNCHANGED <<zbars, zmax, zcand, zsupply>>
    /\ UNCHANGED <<patVars, revVars, fallVars, orchVars, extVars>>

ZNext == ZAppendBar \/ Zfind_zones \/ ZAddCandidate \/ Z_merge_zones

ZInit == ZStart /\ PIdle /\ RIdle /\ FIdle /\ OIdle /\ CfgShipped
        /\ LIdle /\ KIdle /\ BIdle
        /\ MoreIdle

SpecZones == ZInit /\ [][ZNext]_vars

\* the zone engine has returned
ZReturned == zpc \in {"found", "merged"}

IsOverlap(a, b) == ~(a[2] < b[1] \/ b[2] < a[1])

-----------------------------------------------------------------------------
\* C4: zone merging is idempotent: merging a list _merge_zones returned,
\* with the same max_zones, gives that list back.  Stated for the lists
\* _merge_zones returns inside find_zones.
C4_MergeIdempotent ==
    zpc = "found" =>
        /\ _merge_zones(zdemand, zmax) = zdemand
        /\ _merge_zones(zsupply, zmax) = zsupply

\* C5: no two distinct zones of a list returned by _merge_zones overlap.
\* Stated for the two lists find_zones returns.
C5_MergedDisjoint ==
    zpc = "found" =>
        \A l \in {zdemand, zsupply} :
            \A i, j \in 1..Len(l) : i # j => ~IsOverlap(l[i], l[j])

\* C6: every returned zone has low <= high and none is degenerate
\* (low = high), for lists handed to _merge_zones and for find_zones.
C6_LowBelowHigh ==
    ZReturned =>
        \A l \in {zdemand, zsupply} :
            \A i \in 1..Len(l) : l[i][1] <= l[i][2] /\ l[i][1] # l[i][2]

\* C6 witness: find_zones saw a degenerate window (two equal one-tick bars)
\* and still returned a zone; and a direct call was handed a degenerate
\* interval among others
C6_Witness ==
    \/ /\ zpc = "found"
       /\ \E k \in 1..(Len(zbars) - Window) :
              WinLow(zbars, k, Window) = WinHigh(zbars, k, Window)
       /\ Len(zdemand) + Len(zsupply) >= 2
    \/ /\ zpc = "merged"
       /\ \E i \in 1..Len(zcand[1]) : zcand[1][i][1] = zcand[1][i][2]
       /\ Len(zdemand) >= 2

-----------------------------------------------------------------------------
(* supply_demand.py: find_zones_fallback *)

\* tf_finders, lines 116-122, in insertion order, with the max_zones of the
\* wrappers of lines 87-99 (their windows 20, 20, 25, 30, 10 are scaled to
\* Window)
tf_finders == <<
    [tf |-> "M30", max_zones |-> 3],
    [tf |-> "H1", max_zones |-> 3],
    [tf |-> "H2", max_zones |-> 3],
    [tf |-> "H4", max_zones |-> 3],
    [tf |-> "D1", max_zones |-> 2] >>

\* dz, sz = fn(df), line 130
ZonesOf(df, k) == find_zones(df.bars, Window, tf_finders[k].max_zones)

\* mutant: the sides are swapped
ZoneSideSwapped(zs, dir) == IF dir = "BUY" THEN zs[2] ELSE zs[1]

\* line 147: zones = dz if direction == "BUY" else sz
ZoneSide(zs, dir) == IF dir = "BUY" THEN zs[1] ELSE zs[2]

\* line 150: low - zone_tol <= curr_price <= high + zone_tol
InZone(z, price, tol) == z[1] - tol <= price /\ price <= z[2] + tol

\* lines 152-155: the chart pattern check on the last PATTERN_LOOKBACK
\* bars of M15
PatternConfirms(m15, dir) ==
    /\ m15.have
    /\ LET pat == detect_pattern(m15.matched, dir)
       IN  pat # NoPattern /\ pat.direction = dir

\* mutant: an in-zone hit returns without any confirmation
ScanZonesAnyHit(zones, dir, price, tol, m15, revs) ==
    [returned |-> \E k \in 1..Len(zones) : InZone(zones[k], price, tol),
     calls |-> <<>>]

\* the loop of lines 149-164 over the zones of one timeframe; revs[k] is
\* the confirmed list of the detect_reversal_signal call made for zone k,
\* should the loop make one.  Returns whether the loop returned from
\* find_zones_fallback, and the calls made.
ScanZones(zones, dir, price, tol, m15, revs) ==
    LET scan[k \in 0..Len(zones)] ==
            IF k = 0 THEN [returned |-> FALSE, calls |-> <<>>]
            ELSE LET prev == scan[k - 1]
                 IN  IF prev.returned \/ ~InZone(zones[k], price, tol)
                     THEN prev
                     ELSE IF PatternConfirms(m15, dir)
                          THEN [prev EXCEPT !.returned = TRUE]
                          ELSE [returned |-> QuorumReached(revs[k]),
                                calls |-> Append(prev.calls, revs[k])]
    IN  scan[Len(zones)]

\* lines 125-127: df is None or df.empty
NoData(df) == ~df.have \/ df.bars = <<>>

\* the value returned at line 185
NoZoneMatch == [dz |-> <<>>, sz |-> <<>>, tf |-> None]

\* lines 167-177: the nearest zone of the side of the direction over all
\* timeframes, by the distance of its midpoint to the price (compared
\* doubled: |low + high - 2 price|); a later zone replaces the nearest one
\* only when strictly nearer
NearestZone(frames, dir, price) ==
    LET Dist(z) == Abs(z[1] + z[2] - 2 * price)
        Better(best, z, tf) ==
            IF best.tf = None \/ Dist(z) < Dist(best.zone)
            THEN [zone |-> z, tf |-> tf] ELSE best
        OverZones(best, zones, tf) ==
            LET it[i \in 0..Len(zones)] ==
                    IF i = 0 THEN best ELSE Better(it[i - 1], zones[i], tf)
            IN  it[Len(zones)]
        loop[k \in 0..Len(tf_finders)] ==
            IF k = 0 THEN NoNearest
            ELSE IF NoData(frames[k]) THEN loop[k - 1]
                 ELSE OverZones(loop[k - 1],
                                ZoneSide(ZonesOf(frames[k], k), dir),
                                tf_finders[k].tf)
    IN  loop[Len(tf_finders)]

\* mutant: the nearest zone is returned as a match
NoMatchResultNearest(near) ==
    IF near.tf = None THEN NoZoneMatch
    ELSE [dz |-> <<near.zone>>, sz |-> <<near.zone>>, tf |-> near.tf]

\* lines 179-185: the nearest zone is printed and [], [], None returned
NoMatchResult(near) == NoZoneMatch

\* find_zones_fallback(df_dict, direction, curr_price, symbol) as a whole:
\* frames[k] is df_dict.get(tf_finders[k].tf) and rev[k][i] the confirmed
\* list of the detect_reversal_signal call for zone i of timeframe k.
\* Returns the triple, the reversal calls made and the nearest zone
\* printed by lines 179-182.
find_zones_fallback(frames, dir, price, tol, m15, rev) ==
    LET scan[k \in 0..Len(tf_finders)] ==
            IF k = 0 THEN [returned |-> FALSE, value |-> NoZoneMatch,
                           calls |-> <<>>]
            ELSE LET prev == scan[k - 1]
                 IN  IF prev.returned \/ NoData(frames[k]) THEN prev
                     ELSE LET zs == ZonesOf(frames[k], k)
                              r == ScanZones(ZoneSide(zs, dir),
                                             dir, price, tol, m15,
                                             rev[k])
                          IN  [returned |-> r.returned,
                               value |-> IF r.returned
                                         THEN [dz |-> zs[1], sz |-> zs[2],
                                               tf |-> tf_finders[k].tf]
                                         ELSE NoZoneMatch,
                               calls |-> prev.calls \o r.calls]
        end == scan[Len(tf_finders)]
        near == IF end.returned THEN NoNearest
                ELSE NearestZone(frames, dir, price)
    IN  [value |-> IF end.returned THEN end.value ELSE NoMatchResult(near),
         calls |-> end.calls,
         nearest |-> near]

-----------------------------------------------------------------------------
(* The fallback scan, one timeframe per step *)

\* a one-tick bar
Tick(p) == [low |-> p, high |-> p, close |-> p]

\* bar series of Window + 1 bars that open at a and stay at b, one of them
\* the floor 0: the only window find_zones scans spans a and b
FrameSeries ==
    {[i \in 1..(Window + 1) |-> IF i = 1 THEN Tick(p[1]) ELSE Tick(p[2])] :
        p \in {q \in (0..MaxFrame) \X (0..MaxFrame) :
                    q[1] # q[2] /\ 0 \in {q[1], q[2]}}}

\* what df_dict.get(tf) can be: None, an empty frame, a bar series
FrameData ==
    {[have |-> FALSE, bars |-> <<>>]}
    \cup {[have |-> TRUE, bars |-> b] : b \in {<<>>} \cup FrameSeries}

\* the M15 frame as the chart pattern check reads it: on its last
\* PATTERN_LOOKBACK bars no detector matches, or (argrelextrema taking the
\* edge bars for extrema) Double Bottom and Double Top do
M15Data ==
    {[have |-> FALSE, matched |-> {}]}
    \cup {[have |-> TRUE, matched |-> m] : m \in {{}, {1, 2}}}

\* confirmed lists a detect_reversal_signal call can end with: the quorum
\* missed by one, met, exceeded by one
ReversalOutcomes ==
    {FirstN(TIMEFRAMES, n) :
        n \in (REVERSAL_QUORUM - 1)..(REVERSAL_QUORUM + 1)}

FStart ==
    /\ fdirection \in Directions
    /\ curr_price \in 1..MaxClose
    /\ zone_tol \in 0..MaxTol
    /\ m15_df \in M15Data
    /\ fseen = <<>>
    /\ fcalls = <<>>
    /\ fpc = "scan"
    /\ fresult = NoZoneMatch

\* one iteration of the loop of line 125
FScanTimeframe ==
    /\ fpc = "scan"
    /\ Len(fseen) < Len(tf_finders)
    /\ \E df \in FrameData :
          LET k == Len(fseen) + 1
          IN  /\ fseen' = Append(fseen, df)
              /\ IF NoData(df)
                 THEN /\ fcalls' = Append(fcalls, <<>>)
                      /\ UNCHANGED <<fpc, fresult>>
                 ELSE LET zs == ZonesOf(df, k)
                          zones == ZoneSide(zs, fdirection)
                      IN  \E revs \in [1..Len(zones) -> ReversalOutcomes] :
                            LET r == ScanZones(zones, fdirection, curr_price,
                                               zone_tol, m15_df, revs)
                            IN  /\ fcalls' = Append(fcalls, r.calls)
                                /\ IF r.returned
                                   THEN /\ fresult' = [dz |-> zs[1],
                                                       sz |-> zs[2],
                                                       tf |-> tf_finders[k].tf]
                                        /\ fpc' = "done"
                                   ELSE UNCHANGED <<fpc, fresult>>
    /\ UNCHANGED <<fdirection, curr_price, zone_tol, m15_df>>
    /\ UNCHANGED <<zoneVars, patVars, revVars, orchVars, extVars>>

\* lines 166-185: no timeframe confirmed; the nearest zone is only printed
FNoMatch ==
    /\ fpc = "scan"
    /\ Len(fseen) = Len(tf_finders)
    /\ fresult' = NoZoneMatch
    /\ fpc' = "done"
    /\ UNCHANGED <<fdirection, curr_price, zone_tol, m15_df, fseen, fcalls>>
    /\ UNCHANGED <<zoneVars, patVars, revVars, orchVars, extVars>>

FNext == FScanTimeframe \/ FNoMatch

FInit == FStart /\ ZIdle /\ PIdle /\ RIdle /\ OIdle /\ CfgShipped
        /\ LIdle /\ KIdle /\ BIdle
        /\ MoreIdle

SpecFallback == FInit /\ [][FNext]_vars

\* visited timeframe j has a zone on the side of the direction with the
\* price within tolerance
FrameHit(j) ==
    /\ ~NoData(fseen[j])
    /\ \E z \in Range(ZoneSide(ZonesOf(fseen[j], j), fdirection)) :
          InZone(z, curr_price, zone_tol)

\* a confirmation succeeded on visited timeframe j: the chart pattern, or
\* a reversal consensus call made for it
FrameConfirmed(j) ==
    \/ PatternConfirms(m15_df, fdirection)
    \/ \E i \in 1..Len(fcalls[j]) : QuorumReached(fcalls[j][i])

\* C10: the scan visits M30, H1, H2, H4, D1 in this order and returns the
\* first timeframe with an in-tolerance zone on the side of the direction
\* and a successful confirmation (chart pattern, else reversal consensus),
\* with that timeframe's own demand and supply lists; no slower timeframe
\* is read after the hit.
C10_FirstConfirmedTimeframe ==
    fpc = "done" =>
        LET n == Len(fseen)
        IN  /\ [k \in 1..Len(tf_finders) |-> tf_finders[k].tf]
                  = <<"M30", "H1", "H2", "H4", "D1">>
            /\ Len(fcalls) = n
            /\ \A j \in 1..n :
                  /\ (~FrameHit(j) \/ PatternConfirms(m15_df, fdirection))
                        => fcalls[j] = <<>>
                  /\ (j < n \/ fresult.tf = None)
                        => ~(FrameHit(j) /\ FrameConfirmed(j))
            /\ IF fresult.tf # None
               THEN /\ fresult.tf = tf_finders[n].tf
                    /\ FrameHit(n) /\ FrameConfirmed(n)
                    /\ fresult.dz = ZonesOf(fseen[n], n)[1]
                    /\ fresult.sz = ZonesOf(fseen[n], n)[2]
               ELSE /\ n = Len(tf_finders)
                    /\ fresult = NoZoneMatch

\* C10 witness: M30 is in zone but its reversal call misses the quorum, H1
\* is in zone and its reversal call confirms; H1 is returned with its lists
C10_Witness ==
    /\ fpc = "done"
    /\ fresult.tf = "H1"
    /\ Len(fseen) = 2
    /\ FrameHit(1) /\ ~FrameConfirmed(1)
    /\ fcalls[2] # <<>>
    /\ fresult.dz # <<>>

-----------------------------------------------------------------------------
(* main.py: get_trade_decision *)

\* config.py: CONFIDENCE_THRESHOLD = 0.7, in hundredths
CONFIDENCE_THRESHOLD == 70

\* the dict `weights` of lines 238-247, in hundredths
weights ==
    [trend |-> 20, momentum |-> 20, rsi |-> 10, bollinger |-> 10,
     support_resistance |-> 15, candle |-> 15, chart |-> 10,
     trendline |-> 10]

\* get_zone_tolerance(symbol), supply_demand.py lines 21-27: the static
\* tolerance is one tick of the prices of the zone scan
get_zone_tolerance == 1

\* the columns of the frames ensure_data returns
RateColumns == {"time", "open", "high", "low", "close", "tick_volume"}

\* indicators.py lines 5-23: the columns calculate_indicators appends
calculate_indicators(df) ==
    [df EXCEPT !.columns = @ \cup {"SMA20", "SMA50", "RSI", "ATR_14"}]

\* supply_demand.py lines 108-114: zone_tol is M15_PAD_FACTOR (0.5) times
\* the last M15 ATR when m15_df has a column named "atr_14", the static
\* tolerance otherwise.  The ATR is counted in half ticks.
ZoneTolerance(m15) ==
    IF m15.have /\ "atr_14" \in m15.columns
    THEN m15.atr_14 \div 2
    ELSE get_zone_tolerance

Signals == Directions \cup {None}

\* line 219: directions = [d for d in [momentum_dir, bollinger_dir,
\* rsi_dir] if d]
directions(m, b, r) == SelectSeq(<<m, b, r>>, LAMBDA d : d # None)

\* list.count
Count(s, d) == Cardinality({i \in 1..Len(s) : s[i] = d})

\* line 224: max(set(directions), key=directions.count) returns the first
\* element of the set with the highest count; the iteration order of a set
\* of str follows the per-process string hashes, so each most frequent
\* element can come first
MostCommon(s) ==
    {d \in Range(s) : \A e \in Range(s) : Count(s, d) >= Count(s, e)}

\* mutant: every directed match is a conflict
ConflictAnyDirection(pat, dir) == pat.direction \in Directions

\* line 229: isinstance(pat, dict) and pat.get("direction") in ("BUY",
\* "SELL") and pat["direction"] != direction
Conflict(pat, dir) == pat.direction \in Directions /\ pat.direction # dir

\* an entry of `reasons`
Reason(key, text) == [key |-> key, text |-> text]

\* mutant: an agreeing chart pattern is subtracted
AddChartPenalty(acc, cond, key, text) ==
    IF cond
    THEN [score |-> IF key = "chart" THEN acc.score - weights[key]
                    ELSE acc.score + weights[key],
          reasons |-> Append(acc.reasons, Reason(key, text))]
    ELSE acc

\* score += weights[key]; reasons.append(...)
Add(acc, cond, key, text) ==
    IF cond
    THEN [score |-> acc.score + weights[key],
          reasons |-> Append(acc.reasons, Reason(key, text))]
    ELSE acc

\* lines 236-271.  candle: detect_candlestick_pattern(prev_candles,
\* direction) holds and the last candle closes with the direction
Accumulate(dir, trend_dir, m, r, b, near_zone, trendline, candle, chart) ==
    LET chart_pattern == detect_pattern(chart, dir)
        a0 == [score |-> 0, reasons |-> <<>>]
        a1 == Add(a0, trend_dir = (IF dir = "BUY" THEN "uptrend"
                                   ELSE "downtrend"), "trend", trend_dir)
        a2 == Add(a1, m = dir, "momentum", m)
        a3 == Add(a2, r = dir, "rsi", r)
        a4 == Add(a3, b = dir, "bollinger", b)
        a5 == Add(a4, near_zone, "support_resistance",
                  "Near support/resistance")
        a6 == Add(a5, trendline, "trendline", "Respecting trendline")
        a7 == Add(a6, candle, "candle", "Candle pattern (confirmed)")
    IN  Add(a7, chart_pattern.direction = dir, "chart", chart_pattern.pattern)

Keys(rs) == [i \in 1..Len(rs) |-> rs[i].key]

\* line 322: int(score * 10) on the binary floating point sum; the sum
\* 0.2 + 0.2 + 0.1 + 0.1 + 0.1 + 0.1 is 0.7999999999999999, every other
\* sum of the eight weights in the order of lines 249-271 truncates as the
\* exact sum does
Confirmations(sc, rs) ==
    IF Keys(rs) = <<"trend", "momentum", "rsi", "bollinger", "trendline",
                    "chart">>
    THEN 7 ELSE sc \div 10

\* lines 150-155 on df_m15.tail(CANDLE_PATTERN_LOOKBACK): df_candles tells
\* whether the engulfing predicate of the direction holds on the last two
\* bars ("engulfing"), only another predicate of the direction holds
\* ("other"), or none holds ("none")
CandleWindows == {"engulfing", "other", "none"}
detect_candlestick_pattern(candles) == candles # "none"

-----------------------------------------------------------------------------
(* One evaluation of get_trade_decision, one gate per step *)

\* chart windows: the predicates of Double Top (SELL), Symmetric Triangle
\* (no direction) and Cup and Handle (BUY) are free, the others fail
ChartUniverse == {2, 7, 11}
ChartWindows == SUBSET ChartUniverse

FlatSeries == [i \in 1..(Window + 1) |-> Tick(0)]

\* frames of line 283: present and not empty (lines 191-195)
LiveFrames ==
    {[have |-> TRUE, bars |-> b] : b \in FrameSeries \cup {FlatSeries}}

ZoneSnapshots ==
    {[k \in 1..Len(tf_finders) |->
        IF k <= MaxZonedTF THEN f[k] ELSE [have |-> TRUE, bars |-> FlatSeries]] :
        f \in [1..MaxZonedTF -> LiveFrames]}

\* the reversal engine calls of one zone scan: the calls made for the
\* timeframes before c miss the quorum by one, those from c on end with
\* `hit` (the scan stops at the first call that confirms)
ScanPlans ==
    {[k \in 1..Len(tf_finders) |->
        [i \in 1..DEFAULT_MAX_ZONES |->
            IF k < c THEN FirstN(TIMEFRAMES, REVERSAL_QUORUM - 1) ELSE hit]] :
        c \in 1..(Len(tf_finders) + 1),
        hit \in {o \in ReversalOutcomes : QuorumReached(o)}}

OStart == opc = "data" /\ OLocals /\ _LAST_LINE = None

\* config.py line 88
ENABLE_DEBUG_LOGGING == TRUE

\* mutant: a line is dropped whenever the previous one is still in the
\* de-duplication window, whatever it was
print_debug_window_only(msg, last, repeat) ==
    IF repeat THEN None ELSE msg

\* utils/logger.py lines 108-147: the line print_debug emits for msg, None
\* when it emits nothing; last is _LAST_LINE and repeat tells whether the
\* previous line is less than _DEDUP_WINDOW seconds old
print_debug(msg, last, repeat) ==
    IF ~ENABLE_DEBUG_LOGGING THEN None
    ELSE IF last = msg /\ repeat THEN None
    ELSE msg

\* _LAST_LINE after print_debug(msg): lines 127-130 leave it equal to msg,
\* line 144 assigns msg
LastLine(msg, last) == IF ENABLE_DEBUG_LOGGING THEN msg ELSE last

\* print_debug(msg); return None, after a stage whose last line was `last`
Reject(msg, last) ==
    /\ \E repeat \in BOOLEAN : message' = print_debug(msg, last, repeat)
    /\ _LAST_LINE' = LastLine(msg, last)
    /\ opc' = "done"

\* the stage goes on to stage `to` having printed `line` last
Pass(to, line) ==
    /\ opc' = to
    /\ _LAST_LINE' = line
    /\ UNCHANGED message

\* lines 181-195: the data stage
ODataStage ==
    /\ opc = "data"
    /\ LET line == LastLine("[PROCESSING] Checking", _LAST_LINE)
       IN  \E missing \in BOOLEAN :
              IF missing
              THEN Reject("[DATA] Missing candles", line)
              ELSE Pass("signals", line)
    /\ UNCHANGED <<signalVars, direction, df_tf_chart, score, reasons,
                   gateVars, decision>>
    /\ UNCHANGED <<zoneVars, patVars, revVars, fallVars, extVars>>

\* lines 202-210
OSignals ==
    /\ opc = "signals"
    /\ momentum_dir' \in Signals
    /\ bollinger_dir' \in Signals
    /\ rsi_dir' \in Signals
    /\ opc' = "vote"
    /\ UNCHANGED <<direction, df_tf_chart, score, reasons, gateVars, message,
                   decision, _LAST_LINE>>
    /\ UNCHANGED <<zoneVars, patVars, revVars, fallVars, extVars>>

\* lines 219-224: the direction vote
OVote ==
    /\ opc = "vote"
    /\ LET ds == directions(momentum_dir, bollinger_dir, rsi_dir)
       IN  IF ds = <<>>
           THEN /\ Reject("[REJECTED] No direction from indicators.",
                          _LAST_LINE)
                /\ UNCHANGED direction
           ELSE /\ \E d \in MostCommon(ds) : direction' = d
                /\ Pass("conflict", _LAST_LINE)
    /\ UNCHANGED <<signalVars, df_tf_chart, score, reasons, gateVars,
                   decision>>
    /\ UNCHANGED <<zoneVars, patVars, revVars, fallVars, extVars>>

\* lines 226-231: the conflict check
OConflict ==
    /\ opc = "conflict"
    /\ \E m \in ChartWindows :
          /\ df_tf_chart' = m
          /\ IF Conflict(detect_pattern(m, direction), direction)
             THEN Reject("[REJECTED] M15 pattern conflicts.", _LAST_LINE)
             ELSE Pass("score", _LAST_LINE)
    /\ UNCHANGED <<signalVars, direction, score, reasons, gateVars, decision>>
    /\ UNCHANGED <<zoneVars, patVars, revVars, fallVars, extVars>>

\* lines 233-273: the score accumulation
OScore ==
    /\ opc = "score"
    /\ \E trend_dir \in {"uptrend", "downtrend", "sideways"},
          near_zone \in BOOLEAN, trendline \in BOOLEAN, candle \in BOOLEAN :
          LET acc == Accumulate(direction, trend_dir, momentum_dir, rsi_dir,
                                bollinger_dir, near_zone, trendline, candle,
                                df_tf_chart)
          IN  score' = acc.score /\ reasons' = acc.reasons
    /\ Pass("threshold", LastLine("[SCORE]", _LAST_LINE))
    /\ UNCHANGED <<signalVars, direction, df_tf_chart, gateVars, decision>>
    /\ UNCHANGED <<zoneVars, patVars, revVars, fallVars, extVars>>

\* lines 275-277: the threshold gate
OThreshold ==
    /\ opc = "threshold"
    /\ IF score < CONFIDENCE_THRESHOLD
       THEN Reject("[SKIP] Below confidence threshold.", _LAST_LINE)
       ELSE Pass("reversal", _LAST_LINE)
    /\ UNCHANGED <<signalVars, direction, df_tf_chart, score, reasons,
                   gateVars, decision>>
    /\ UNCHANGED <<zoneVars, patVars, revVars, fallVars, extVars>>

\* line 279, left operand of `and`: the engine is called only when the
\* filter is enabled
GateInvokesEngine(use_filter) == use_filter

\* mutant: the gate never rejects
GateRejectsNever(use_filter, confirmed) == FALSE

\* line 279: USE_REVERSAL_FILTER and not detect_reversal_signal(...)
GateRejects(use_filter, confirmed) ==
    use_filter /\ ~QuorumReached(confirmed)

\* lines 279-281: the reversal gate; the engine fetches its own candles,
\* so every call has its own list of confirming timeframes
OReversalGate ==
    /\ opc = "reversal"
    /\ IF GateInvokesEngine(USE_REVERSAL_FILTER)
       THEN \E c \in ReversalOutcomes :
              /\ reversal_gate' = c
              /\ LET line == LastLine("[FINAL] reversal", _LAST_LINE)
                 IN  IF GateRejects(USE_REVERSAL_FILTER, c)
                     THEN Reject("[REJECTED] Reversal filter failed.", line)
                     ELSE Pass("zones", line)
       ELSE /\ Pass("zones", _LAST_LINE)
            /\ UNCHANGED reversal_gate
    /\ UNCHANGED <<signalVars, direction, df_tf_chart, score, reasons,
                   scan_calls, last_close, df_dict, df_m15, scan_tol, nearest,
                   zones_d, zones_s, tf_used, df_candles, decision>>
    /\ UNCHANGED <<zoneVars, patVars, revVars, fallVars, extVars>>

\* df_m15 of line 198 as the zone scan reads it: the ATR is an even number
\* of ticks
M15Frames ==
    {calculate_indicators([have |-> TRUE, columns |-> RateColumns,
                           atr_14 |-> 2 * a, matched |-> m]) :
        a \in 1..MaxAtr, m \in {{}, {1, 2}}}

\* what line 285 can return for a direction: the frames and price handed
\* to find_zones_fallback, the tolerance it fixes, and the value r it
\* returns for them
ZoneScans ==
    [d \in Directions |->
        {[df_dict |-> snap, last_close |-> price, df_m15 |-> m,
          tol |-> ZoneTolerance(m),
          r |-> find_zones_fallback(snap, d, price, ZoneTolerance(m), m,
                                    plan)] :
            snap \in ZoneSnapshots, price \in 1..MaxClose,
            m \in M15Frames, plan \in ScanPlans}]

\* mutant: the zone gate lets every evaluation through
ZoneGateRejectsNever(dir, zd, zs) == FALSE

\* lines 287-290: direction == "BUY" and not zones_d, or direction ==
\* "SELL" and not zones_s
ZoneGateRejects(dir, zd, zs) ==
    \/ dir = "BUY" /\ zd = <<>>
    \/ dir = "SELL" /\ zs = <<>>

\* lines 283-308: the zone gate.  The closest-zone report of lines 292-308
\* calls find_zones_fallback once more per frame and only prints.
OZoneGate ==
    /\ opc = "zones"
    /\ \E o \in ZoneScans[direction] :
          /\ df_dict' = o.df_dict
          /\ last_close' = o.last_close
          /\ df_m15' = o.df_m15
          /\ scan_tol' = o.tol
          /\ nearest' = o.r.nearest
          /\ scan_calls' = o.r.calls
          /\ zones_d' = o.r.value.dz
          /\ zones_s' = o.r.value.sz
          /\ tf_used' = o.r.value.tf
          /\ IF ZoneGateRejects(direction, o.r.value.dz, o.r.value.sz)
             THEN Reject(IF direction = "BUY"
                         THEN "[REJECTED] Not in demand zone on any TF."
                         ELSE "[REJECTED] Not in supply zone on any TF.",
                         LastLine("[ZONES] No confirmed zone match found.",
                                  _LAST_LINE))
             ELSE Pass("confirm", LastLine("[INFO] Closest zone", _LAST_LINE))
    /\ UNCHANGED <<signalVars, direction, df_tf_chart, score, reasons,
                   reversal_gate, df_candles, decision>>
    /\ UNCHANGED <<zoneVars, patVars, revVars, fallVars, extVars>>

\* lines 310-325: the zone reversal confirmation and the returned dict
OConfirm ==
    /\ opc = "confirm"
    /\ \E c \in CandleWindows :
          /\ df_candles' = c
          /\ IF ~detect_candlestick_pattern(c)
             THEN /\ Reject("[REJECTED] In zone but no reversal pattern detected.",
                            _LAST_LINE)
                  /\ UNCHANGED <<reasons, decision>>
             ELSE LET rs == reasons \o
                            << Reason("zone", tf_used),
                               Reason("zone_reversal",
                                      "Reversal pattern confirmed in zone") >>
                  IN  /\ reasons' = rs
                      /\ decision' =
                            [direction |-> direction,
                             confidence |-> score,
                             confirmations |-> Confirmations(score, reasons),
                             reasons |-> rs]
                      /\ Pass("done", _LAST_LINE)
    /\ UNCHANGED <<signalVars, direction, df_tf_chart, score, reversal_gate,
                   scan_calls, last_close, df_dict, df_m15, scan_tol, nearest,
                   zones_d, zones_s, tf_used>>
    /\ UNCHANGED <<zoneVars, patVars, revVars, fallVars, extVars>>

\* run_bot, lines 342-427: the next evaluation starts afresh; the logger
\* keeps its last line
ONextEvaluation ==
    /\ opc = "done"
    /\ opc' = "data"
    /\ momentum_dir' = None /\ bollinger_dir' = None /\ rsi_dir' = None
    /\ direction' = None
    /\ df_tf_chart' = {}
    /\ score' = 0
    /\ reasons' = <<>>
    /\ reversal_gate' = <<>>
    /\ scan_calls' = <<>>
    /\ last_close' = 0
    /\ df_dict' = <<>>
    /\ df_m15' = NoFrame
    /\ scan_tol' = 0
    /\ nearest' = NoNearest
    /\ zones_d' = <<>> /\ zones_s' = <<>>
    /\ tf_used' = None
    /\ df_candles' = None
    /\ message' = None
    /\ decision' = NoDecision
    /\ UNCHANGED _LAST_LINE
    /\ UNCHANGED <<zoneVars, patVars, revVars, fallVars, extVars>>

Next ==
    \/ ODataStage \/ OSignals \/ OVote \/ OConflict \/ OScore
    \/ OThreshold \/ OReversalGate \/ OZoneGate \/ OConfirm
    \/ ONextEvaluation

Init == OStart /\ ZIdle /\ PIdle /\ RIdle /\ FIdle /\ CfgAny
        /\ LIdle /\ KIdle /\ BIdle
        /\ MoreIdle

Spec == Init /\ [][Next]_vars

-----------------------------------------------------------------------------
\* the signals that voted, in evaluation order
Voted == directions(momentum_dir, bollinger_dir, rsi_dir)

\* the most frequent signal that comes first in the evaluation order
FirstSeen(ds) == ds[SetMin({i \in 1..Len(ds) : ds[i] \in MostCommon(ds)})]

\* C7: the voted direction is the majority of the non-null momentum,
\* Bollinger and RSI signals, a tie going to the signal seen first in the
\* order momentum, Bollinger, RSI.
C7_VoteFirstSeen ==
    direction # None =>
        /\ direction \in MostCommon(Voted)
        /\ direction = FirstSeen(Voted)

\* C3: the accumulated score lies in [0, 1] (0..100 hundredths) and the
\* emitted confidence in [0, 100].
C3_ScoreInUnitRange ==
    /\ score \in 0..100
    /\ decision.confidence \in 0..100

Opposite(d) == IF d = "BUY" THEN "SELL" ELSE "BUY"

\* entries of a chart window that carry direction d
WindowWith(m, d) == {i \in m : patterns[i].direction = d}

\* past the conflict check of the running evaluation
PastConflict == opc \in {"score", "threshold", "reversal", "zones", "confirm"}

\* the match detect_pattern hands to the conflict check is of the opposite
\* direction: no pattern of the chosen direction matches the window and
\* the first pattern of the list that matches is an opposite one
OppositeReturned ==
    /\ df_tf_chart # {}
    /\ WindowWith(df_tf_chart, direction) = {}
    /\ patterns[SetMin(df_tf_chart)].direction = Opposite(direction)

\* C8 as amended: the conflict check rejects exactly when the match
\* returned by detect_pattern for the chosen direction is of the opposite
\* direction; no evaluation gets past the check, and no Decision is
\* emitted, with such a returned match.
C8_ConflictOnReturnedMatch ==
    /\ (PastConflict \/ decision # NoDecision) => ~OppositeReturned
    /\ message = "[REJECTED] M15 pattern conflicts." => OppositeReturned

\* C8 as stated: no evaluation gets past the conflict check, and no
\* Decision is emitted, while a pattern of the opposite direction matches
\* the window.
C8_RejectsAnyOppositeMatch ==
    (PastConflict \/ decision # NoDecision) =>
        WindowWith(df_tf_chart, Opposite(direction)) = {}

\* C8 witness: Double Top and Symmetric Triangle match, the vote is BUY,
\* and the evaluation is rejected for the conflict
C8_Witness ==
    /\ opc = "done"
    /\ direction = "BUY"
    /\ df_tf_chart = {2, 7}
    /\ message = "[REJECTED] M15 pattern conflicts."
    /\ decision = NoDecision

-----------------------------------------------------------------------------
\* frame k of the scanned snapshot has a demand zone with the price within
\* tol of it
DemandHit(k, tol) ==
    \E z \in Range(ZonesOf(df_dict[k], k)[1]) : InZone(z, last_close, tol)

\* the end-to-end scenario, with the price within tol of a demand zone on
\* H1 and of none on M30: momentum and RSI vote BUY, no chart pattern
\* matches the 40-bar window, the score reaches the threshold, every
\* reversal engine call of the evaluation ends with 5 of 8 timeframes
EndToEnd(tol) ==
    /\ momentum_dir = "BUY" /\ rsi_dir = "BUY"
    /\ df_tf_chart = {}
    /\ score >= CONFIDENCE_THRESHOLD
    /\ Len(reversal_gate) = 5
    /\ Len(df_dict) = Len(tf_finders)
    /\ \A i \in 1..Len(scan_calls) : Len(scan_calls[i]) = 5
    /\ DemandHit(2, tol)
    /\ ~DemandHit(1, tol)

\* the Decision of the scenario: BUY, in the H1 zone
AcceptBuyH1 ==
    /\ decision # NoDecision
    /\ decision.direction = "BUY"
    /\ Reason("zone", "H1") \in Range(decision.reasons)
    /\ decision.confidence = score

-----------------------------------------------------------------------------
\* the zone scan of line 285 has run
Scanned == opc \in {"confirm", "done"} /\ df_dict # <<>>

\* fn(df) of line 131 for every frame of the snapshots and every entry of
\* tf_finders, tabulated
SnapshotZones ==
    [f \in LiveFrames |-> [k \in 1..Len(tf_finders) |-> ZonesOf(f, k)]]

\* the zones of the required side on frame k of the scanned snapshot
RequiredSide(k) == ZoneSide(SnapshotZones[df_dict[k]][k], direction)

\* frame k has a zone of the required side with the price within the
\* tolerance of the scan
ZoneHit(k) ==
    \E z \in Range(RequiredSide(k)) : InZone(z, last_close, scan_tol)

\* no timeframe yields an in-zone hit with a successful confirmation: no
\* frame is hit, or the chart pattern check fails and no reversal engine
\* call of the scan reached the quorum
NoConfirmedHit ==
    \/ \A k \in 1..Len(df_dict) : ~ZoneHit(k)
    \/ /\ ~PatternConfirms(df_m15, direction)
       /\ \A i \in 1..Len(scan_calls) : ~QuorumReached(scan_calls[i])

\* rejected at the zone gate
ZoneRejected ==
    /\ opc = "done"
    /\ decision = NoDecision
    /\ message = (IF direction = "BUY"
                  THEN "[REJECTED] Not in demand zone on any TF."
                  ELSE "[REJECTED] Not in supply zone on any TF.")

\* C11: when no timeframe yields an in-zone hit with a successful
\* confirmation, the scan returns empty lists and no timeframe, whatever
\* nearest zone it printed, and get_trade_decision rejects at the zone
\* gate; in particular when the required side is empty on every timeframe.
C11_NoMatchRejects ==
    Scanned =>
        /\ NoConfirmedHit =>
              /\ zones_d = <<>> /\ zones_s = <<>> /\ tf_used = None
              /\ ZoneRejected
        /\ (\A k \in 1..Len(df_dict) : RequiredSide(k) = <<>>)
              => ZoneRejected /\ nearest = NoNearest

\* C11 witness: a frame is hit but nothing confirms; the scan printed a
\* nearest zone and the evaluation is rejected at the zone gate
C11_Witness ==
    /\ Scanned
    /\ \E k \in 1..Len(df_dict) : ZoneHit(k)
    /\ NoConfirmedHit
    /\ scan_calls # <<>>
    /\ nearest.tf # None
    /\ ZoneRejected

\* C12: with ATR-14 computed on the M15 series by calculate_indicators,
\* the tolerance of the zone scan is 0.5 times the last M15 ATR.
C12_ToleranceFromM15Atr ==
    (Scanned /\ df_m15.have /\ "ATR_14" \in df_m15.columns) =>
        2 * scan_tol = df_m15.atr_14

-----------------------------------------------------------------------------
\* the evaluations of lines 236-271 for a direction: the set of agreeing
\* sub-signals and the accumulated score
Evaluations ==
    [d \in Directions |->
        {LET acc == Accumulate(d, t, m, r, b, nz, tl, ca, ch)
         IN  [agreeing |-> Range(Keys(acc.reasons)), score |-> acc.score] :
            t \in {"uptrend", "downtrend", "sideways"},
            m \in Signals, r \in Signals, b \in Signals,
            nz \in BOOLEAN, tl \in BOOLEAN, ca \in BOOLEAN,
            ch \in ChartWindows}]

\* C17: the score just accumulated is at most the score of every
\* evaluation for the same direction whose agreeing sub-signals include
\* those of this one.
C17_ScoreMonotonic ==
    opc = "threshold" =>
        \A e \in Evaluations[direction] :
            Range(Keys(reasons)) \subseteq e.agreeing => e.score >= score

\* C17 witness: an evaluation with three agreeing sub-signals, which has
\* strict supersets
C17_Witness ==
    /\ opc = "threshold"
    /\ Len(reasons) = 3
    /\ \E e \in Evaluations[direction] :
          /\ Range(Keys(reasons)) \subseteq e.agreeing
          /\ Range(Keys(reasons)) # e.agreeing
          /\ e.score > score

-----------------------------------------------------------------------------
\* past the reversal gate of the running evaluation
PastReversalGate == opc \in {"zones", "confirm"} \/ decision # NoDecision

\* C18: with the filter enabled an evaluation gets past the reversal gate,
\* and a Decision is emitted, only if the engine call of the gate reached
\* the quorum; with the filter disabled the gate makes no engine call and
\* never rejects.
C18_ReversalGate ==
    /\ (USE_REVERSAL_FILTER /\ PastReversalGate)
          => QuorumReached(reversal_gate)
    /\ ~USE_REVERSAL_FILTER
          => /\ reversal_gate = <<>>
             /\ message # "[REJECTED] Reversal filter failed."

\* C18 witness: the filter is disabled, the gate made no engine call and a
\* Decision is emitted
C18_Witness ==
    /\ ~USE_REVERSAL_FILTER
    /\ decision # NoDecision
    /\ reversal_gate = <<>>

\* C18, the enabled case: the engine call of the gate missed the quorum
\* and the evaluation is rejected
C18_WitnessRejected ==
    /\ USE_REVERSAL_FILTER
    /\ opc = "done"
    /\ ~QuorumReached(reversal_gate)
    /\ message = "[REJECTED] Reversal filter failed."

-----------------------------------------------------------------------------
\* the reason lines of the return None statements of get_trade_decision
RejectionLines ==
    {"[DATA] Missing candles",
     "[REJECTED] No direction from indicators.",
     "[REJECTED] M15 pattern conflicts.",
     "[SKIP] Below confidence threshold.",
     "[REJECTED] Reversal filter failed.",
     "[REJECTED] Not in demand zone on any TF.",
     "[REJECTED] Not in supply zone on any TF.",
     "[REJECTED] In zone but no reversal pattern detected."}

\* C20: an evaluation that ended without a Decision emitted one of the
\* reason lines, and it is the last line the logger saw.
C20_RejectionHasReason ==
    (opc = "done" /\ decision = NoDecision) =>
        /\ message \in RejectionLines
        /\ _LAST_LINE = message

\* C20 witness: the evaluation was skipped below the threshold, with its
\* reason line emitted after the score line
C20_Witness ==
    /\ opc = "done"
    /\ decision = NoDecision
    /\ score < CONFIDENCE_THRESHOLD
    /\ reasons # <<>>
    /\ message = "[SKIP] Below confidence threshold."

-----------------------------------------------------------------------------
(* support_resistance.py: find_nearest_levels *)

\* sorted(list) and sorted(list, reverse=True) on a list with repetitions
SortedList(s, reverse) ==
    LET ord == IF reverse THEN SortedDesc(Range(s)) ELSE SortedAsc(Range(s))
        f[k \in 0..Len(ord)] ==
            IF k = 0 THEN <<>>
            ELSE f[k - 1] \o [i \in 1..Count(s, ord[k]) |-> ord[k]]
    IN  f[Len(ord)]

\* line 25: max_index = min(max(len(df) - window, 0), lookback)
max_index(n, window, lookback) == Min2(Max2(n - window, 0), lookback)

\* line 27: range(window, max_index), as positions counted from 1
ScannedBars(n, window, lookback) ==
    {j \in 1..n : window < j /\ j <= max_index(n, window, lookback)}

\* lines 32 and 34: the bar at position j is strictly beyond the `window`
\* bars before it and the (at most `window`) bars after it; side is "high"
\* for a swing high, "low" for a swing low
IsSwing(df, j, window, side) ==
    LET Beyond(q) == IF side = "high" THEN df[j].high > df[q].high
                     ELSE df[j].low < df[q].low
    IN  /\ \A q \in (j - window)..(j - 1) : Beyond(q)
        /\ \A q \in (j + 1)..Min2(j + window, Len(df)) : Beyond(q)

\* lines 27-35: the list `resistances` (side "high") or `supports` (side
\* "low"), in scan order
SwingList(df, window, lookback, side) ==
    LET js == SortedAsc({j \in ScannedBars(Len(df), window, lookback) :
                            IsSwing(df, j, window, side)})
    IN  [k \in 1..Len(js) |-> IF side = "high" THEN df[js[k]].high
                              ELSE df[js[k]].low]

\* mutant: the supports are sorted farthest first
NearestSupportsAscending(supports, close, max_levels) ==
    FirstN(SortedList(SelectSeq(supports, LAMBDA x : x < close), FALSE),
           max_levels)

\* line 38
NearestSupports(supports, close, max_levels) ==
    FirstN(SortedList(SelectSeq(supports, LAMBDA x : x < close), TRUE),
           max_levels)

\* line 39
NearestResistances(resistances, close, max_levels) ==
    FirstN(SortedList(SelectSeq(resistances, LAMBDA x : x > close), FALSE),
           max_levels)

\* find_nearest_levels(df, window, lookback, max_levels), lines 8-40, on a
\* series that is not empty
find_nearest_levels(df, close, window, lookback, max_levels) ==
    [supports |-> NearestSupports(SwingList(df, window, lookback, "low"),
                                  close, max_levels),
     resistances |->
         NearestResistances(SwingList(df, window, lookback, "high"),
                            close, max_levels)]

\* the default of the lookback argument (line 11)
DEFAULT_LOOKBACK == 1000

-----------------------------------------------------------------------------
(* The level finder on bounded series *)

\* the (low, high) of a bar
LevelBarSet ==
    {b \in [low : 0..LevelPrice, high : 0..LevelPrice] : b.low <= b.high}

LStart ==
    /\ ldf = <<>>
    /\ lrecent_close = 0
    /\ lwindow \in 1..LevelWindow
    /\ llookback \in {LevelLookback, DEFAULT_LOOKBACK}
    /\ lmax_levels \in 1..LevelCap
    /\ lpc = "feed"
    /\ lsupports = <<>> /\ lresistances = <<>>

\* the data provider appends one bar
LAppendBar ==
    /\ lpc = "feed"
    /\ Len(ldf) < LevelBars
    /\ \E b \in LevelBarSet : ldf' = Append(ldf, b)
    /\ UNCHANGED <<lrecent_close, lwindow, llookback, lmax_levels, lpc,
                   lsupports, lresistances>>
    /\ UNCHANGED <<coreVars, candVars, botVars>>

\* find_nearest_levels runs on the series; the last bar closes between its
\* low and its high.  On an empty series line 23 raises IndexError.
Lfind_nearest_levels ==
    /\ lpc = "feed"
    /\ IF ldf = <<>>
       THEN /\ lpc' = "raised"
            /\ UNCHANGED <<lrecent_close, lsupports, lresistances>>
       ELSE \E c \in ldf[Len(ldf)].low..ldf[Len(ldf)].high :
              LET r == find_nearest_levels(ldf, c, lwindow, llookback,
                                           lmax_levels)
              IN  /\ lrecent_close' = c
                  /\ lsupports' = r.supports
                  /\ lresistances' = r.resistances
                  /\ lpc' = "done"
    /\ UNCHANGED <<ldf, lwindow, llookback, lmax_levels>>
    /\ UNCHANGED <<coreVars, candVars, botVars>>

LNext == LAppendBar \/ Lfind_nearest_levels

LInit == LStart /\ ZIdle /\ PIdle /\ RIdle /\ FIdle /\ OIdle /\ CfgShipped
        /\ KIdle /\ BIdle
        /\ MoreIdle

SpecLevels == LInit /\ [][LNext]_vars

\* C13: the supports returned are all strictly below the last close and
\* ordered nearest first, the resistances all strictly above it and
\* ordered nearest first, and each list has at most max_levels entries.
C13_LevelsOrdered ==
    lpc = "done" =>
        /\ Len(lsupports) <= lmax_levels
        /\ Len(lresistances) <= lmax_levels
        /\ \A i \in 1..Len(lsupports) : lsupports[i] < lrecent_close
        /\ \A i \in 1..Len(lresistances) : lresistances[i] > lrecent_close
        /\ \A i \in 1..(Len(lsupports) - 1) :
              lsupports[i] >= lsupports[i + 1]
        /\ \A i \in 1..(Len(lresistances) - 1) :
              lresistances[i] <= lresistances[i + 1]

\* C13 witness: two swing lows of different depth below the close and
\* max_levels = 1: the nearer one is returned alone
C13_Witness ==
    /\ lpc = "done"
    /\ lmax_levels = 1
    /\ Len(lsupports) = 1
    /\ \E j \in ScannedBars(Len(ldf), lwindow, llookback) :
          /\ IsSwing(ldf, j, lwindow, "low")
          /\ ldf[j].low < lsupports[1]

\* position j is a swing low: strictly lower than the `window` lows before
\* it and the `window` lows after it
FullSwingLow(j) ==
    /\ j - lwindow >= 1
    /\ j + lwindow <= Len(ldf)
    /\ IsSwing(ldf, j, lwindow, "low")

\* C14: every swing low among the most recent `lookback` bars that is
\* strictly below the last close is in supports, unless max_levels nearer
\* supports were returned.
C14_SwingLowIsSupport ==
    lpc = "done" =>
        \A j \in 1..Len(ldf) :
            (/\ j > Len(ldf) - llookback
             /\ FullSwingLow(j)
             /\ ldf[j].low < lrecent_close)
            => \/ ldf[j].low \in Range(lsupports)
               \/ /\ Len(lsupports) = lmax_levels
                  /\ \A i \in 1..Len(lsupports) : lsupports[i] > ldf[j].low

-----------------------------------------------------------------------------
(* candle_patterns.py: the candlestick predicates *)

\* what a call of a predicate does: it raises (IndexError of df.iloc) or it
\* returns a boolean
Raised == [raised |-> TRUE, value |-> FALSE]
Returned(v) == [raised |-> FALSE, value |-> v]

\* mutant: the length guard is off by one
TooShortOffByOne(df, need) == Len(df) < need - 1

\* `if len(df) < need: return False`
TooShort(df, need) == Len(df) < need

\* df.iloc[-k]
iloc(df, k) == df[Len(df) + 1 - k]

\* a predicate with the guard `len(df) < need` that then reads the rows
\* df.iloc[-reads] .. df.iloc[-1] and returns `test`
Predicate(df, need, reads, test) ==
    IF TooShort(df, need) THEN Returned(FALSE)
    ELSE IF Len(df) < reads THEN Raised
    ELSE Returned(test)

body(c) == Abs(c.close - c.open)
lower_wick(c) == Min2(c.close, c.open) - c.low
upper_wick(c) == c.high - Max2(c.close, c.open)

\* lines 5-14
is_bullish_engulfing(df) ==
    Predicate(df, 2, 2,
        LET prev == iloc(df, 2)
            curr == iloc(df, 1)
        IN  /\ prev.close < prev.open
            /\ curr.close > curr.open
            /\ curr.open < prev.close
            /\ curr.close > prev.open)

\* lines 16-25
is_bearish_engulfing(df) ==
    Predicate(df, 2, 2,
        LET prev == iloc(df, 2)
            curr == iloc(df, 1)
        IN  /\ prev.close > prev.open
            /\ curr.close < curr.open
            /\ curr.open > prev.close
            /\ curr.close < prev.open)

\* lines 27-33
is_hammer(df) ==
    Predicate(df, 1, 1,
        LET c == iloc(df, 1) IN lower_wick(c) > 2 * body(c))

\* lines 35-41
is_shooting_star(df) ==
    Predicate(df, 1, 1,
        LET c == iloc(df, 1) IN upper_wick(c) > 2 * body(c))

\* lines 43-47: body < 0.1 * (high - low)
is_doji(df) ==
    Predicate(df, 1, 1,
        LET c == iloc(df, 1) IN 10 * body(c) < c.high - c.low)

\* lines 51-60: the middle body is below 0.2 of its range and the last
\* close is above the midpoint of the first body
is_morning_star(df) ==
    Predicate(df, 3, 3,
        LET a == iloc(df, 3)
            b == iloc(df, 2)
            c == iloc(df, 1)
        IN  /\ a.close < a.open
            /\ 5 * body(b) < b.high - b.low
            /\ c.close > c.open
            /\ 2 * c.close > a.open + a.close)

\* lines 62-71
is_evening_star(df) ==
    Predicate(df, 3, 3,
        LET a == iloc(df, 3)
            b == iloc(df, 2)
            c == iloc(df, 1)
        IN  /\ a.close > a.open
            /\ 5 * body(b) < b.high - b.low
            /\ c.close < c.open
            /\ 2 * c.close < a.open + a.close)

\* lines 73-81
is_gravestone_doji(df) ==
    Predicate(df, 1, 1,
        LET c == iloc(df, 1)
        IN  /\ 10 * body(c) < c.high - c.low
            /\ upper_wick(c) > 2 * body(c))

\* lines 83-91
is_dragonfly_doji(df) ==
    Predicate(df, 1, 1,
        LET c == iloc(df, 1)
        IN  /\ 10 * body(c) < c.high - c.low
            /\ lower_wick(c) > 2 * body(c))

\* lines 93-101: abs(a.high - b.high) < 1e-5 on prices in whole ticks
is_tweezer_top(df) ==
    Predicate(df, 2, 2,
        LET a == iloc(df, 2)
            b == iloc(df, 1)
        IN  /\ a.high = b.high
            /\ a.close > a.open
            /\ b.close < b.open)

\* lines 103-111
is_tweezer_bottom(df) ==
    Predicate(df, 2, 2,
        LET a == iloc(df, 2)
            b == iloc(df, 1)
        IN  /\ a.low = b.low
            /\ a.close < a.open
            /\ b.close > b.open)

\* lines 113-122
is_bullish_harami(df) ==
    Predicate(df, 2, 2,
        LET a == iloc(df, 2)
            b == iloc(df, 1)
        IN  /\ a.close < a.open
            /\ b.close > b.open
            /\ b.open > a.close
            /\ b.close < a.open)

\* lines 124-133
is_bearish_harami(df) ==
    Predicate(df, 2, 2,
        LET a == iloc(df, 2)
            b == iloc(df, 1)
        IN  /\ a.close > a.open
            /\ b.close < b.open
            /\ b.open < a.close
            /\ b.close > a.open)

\* ALL_PATTERNS (line 165), each applied to df
ALL_PATTERNS(df) ==
    [is_bullish_engulfing |-> is_bullish_engulfing(df),
     is_hammer            |-> is_hammer(df),
     is_dragonfly_doji    |-> is_dragonfly_doji(df),
     is_tweezer_bottom    |-> is_tweezer_bottom(df),
     is_bullish_harami    |-> is_bullish_harami(df),
     is_morning_star      |-> is_morning_star(df),
     is_bearish_engulfing |-> is_bearish_engulfing(df),
     is_shooting_star     |-> is_shooting_star(df),
     is_gravestone_doji   |-> is_gravestone_doji(df),
     is_tweezer_top       |-> is_tweezer_top(df),
     is_bearish_harami    |-> is_bearish_harami(df),
     is_evening_star      |-> is_evening_star(df),
     is_doji              |-> is_doji(df)]

\* the bars each pattern is made of
BarsNeeded ==
    [is_bullish_engulfing |-> 2,
     is_hammer            |-> 1,
     is_dragonfly_doji    |-> 1,
     is_tweezer_bottom    |-> 2,
     is_bullish_harami    |-> 2,
     is_morning_star      |-> 3,
     is_bearish_engulfing |-> 2,
     is_shooting_star     |-> 1,
     is_gravestone_doji   |-> 1,
     is_tweezer_top       |-> 2,
     is_bearish_harami    |-> 2,
     is_evening_star      |-> 3,
     is_doji              |-> 1]

-----------------------------------------------------------------------------
(* The candlestick predicates on bounded series *)

\* a bar: the low is at most, and the high at least, the open and the close
CandleBarSet ==
    {c \in [open : 0..CandlePrice, high : 0..CandlePrice,
            low : 0..CandlePrice, close : 0..CandlePrice] :
        /\ c.low <= Min2(c.open, c.close)
        /\ c.high >= Max2(c.open, c.close)}

KStart ==
    /\ kdf = <<>>
    /\ kpc = "feed"
    /\ kresult = <<>>

\* the data provider appends one bar
KAppendBar ==
    /\ kpc = "feed"
    /\ Len(kdf) < CandleBars
    /\ \E c \in CandleBarSet : kdf' = Append(kdf, c)
    /\ UNCHANGED <<kpc, kresult>>
    /\ UNCHANGED <<coreVars, levVars, botVars>>

\* every predicate is called on the series
KClassify ==
    /\ kpc = "feed"
    /\ kresult' = ALL_PATTERNS(kdf)
    /\ kpc' = "done"
    /\ UNCHANGED kdf
    /\ UNCHANGED <<coreVars, levVars, botVars>>

KNext == KAppendBar \/ KClassify

KInit == KStart /\ ZIdle /\ PIdle /\ RIdle /\ FIdle /\ OIdle /\ CfgShipped
        /\ LIdle /\ BIdle
        /\ MoreIdle

SpecCandles == KInit /\ [][KNext]_vars

\* C15: on a series with fewer bars than a pattern is made of, the
\* predicate of that pattern returns false and does not raise.
C15_ShortSeriesIsFalse ==
    kpc = "done" =>
        \A f \in DOMAIN BarsNeeded :
            Len(kdf) < BarsNeeded[f] => kresult[f] = Returned(FALSE)

\* C15 witness: on a series of two bars a two-bar pattern is found, and
\* the three-bar predicates returned false
C15_Witness ==
    /\ kpc = "done"
    /\ Len(kdf) = 2
    /\ kresult.is_bullish_engulfing = Returned(TRUE)
    /\ kresult.is_morning_star = Returned(FALSE)
    /\ kresult.is_evening_star = Returned(FALSE)

\* C16: no bar satisfies both is_gravestone_doji and is_dragonfly_doji.
C16_DojiKindsExclusive ==
    kpc = "done" =>
        ~(/\ kresult.is_gravestone_doji = Returned(TRUE)
          /\ kresult.is_dragonfly_doji = Returned(TRUE))

-----------------------------------------------------------------------------
(* main.py: one cycle of run_bot (lines 342-427) *)

\* ACTIVE_SYMBOLS, by position
ACTIVE_SYMBOLS == 1..NumSymbols

\* what get_trade_decision(sym) does at line 379: it returns None, raises,
\* or returns a Decision with a confidence
EvaluationOutcomes ==
    {[outcome |-> "rejected", confidence |-> 0],
     [outcome |-> "exception", confidence |-> 0]}
    \cup {[outcome |-> "decision", confidence |-> c] : c \in 1..MaxConfidence}

\* mutant: an exception of the evaluation leaves the loop
EvaluationEndsAborts(outcome) ==
    IF outcome = "exception" THEN "abort" ELSE "next_symbol"

\* lines 378-383: the evaluation sits in try/except Exception whose handler
\* only prints, and a None is not a best trade: the loop goes on
EvaluationEnds(outcome) == "next_symbol"

\* mutant: a later Decision of the same confidence replaces the best trade
BetterTradeOrEqual(e, best) ==
    /\ e.outcome = "decision"
    /\ (best = NoTrade \/ e.confidence >= best.confidence)

\* line 380: decision and (not best_trade or
\*           decision["confidence"] > best_trade["confidence"])
BetterTrade(e, best) ==
    /\ e.outcome = "decision"
    /\ (best = NoTrade \/ e.confidence > best.confidence)

BStart ==
    /\ bpc = "init"
    /\ stop_flag \in BOOLEAN
    /\ bvisited = <<>>
    /\ best_trade = NoTrade
    /\ placed = <<>>
    /\ managed = FALSE
    /\ bexit = None

\* mt5.shutdown(); return
BReturn(why) ==
    /\ bpc' = "exit"
    /\ bexit' = why

\* the GUI creates the stop flag file
BStopRequested ==
    /\ bpc # "idle"
    /\ ~stop_flag
    /\ stop_flag' = TRUE
    /\ UNCHANGED <<bpc, bvisited, best_trade, placed, managed, bexit>>
    /\ UNCHANGED <<coreVars, levVars, candVars>>

\* lines 343-358
BEnter ==
    /\ bpc = "init"
    /\ \E initialized \in BOOLEAN, in_window \in BOOLEAN :
          IF ~initialized THEN BReturn("init_failed")
          ELSE IF stop_flag THEN BReturn("stop_before_run")
          ELSE IF ~in_window THEN BReturn("outside_hours")
          ELSE bpc' = "loop" /\ UNCHANGED bexit
    /\ UNCHANGED <<stop_flag, bvisited, best_trade, placed, managed>>
    /\ UNCHANGED <<coreVars, levVars, candVars>>

\* lines 360-383: one pass of the loop body for the next symbol
BSymbol ==
    /\ bpc = "loop"
    /\ Len(bvisited) < NumSymbols
    /\ \E resolved \in BOOLEAN, open_position \in BOOLEAN,
          e \in EvaluationOutcomes :
          LET sym == Len(bvisited) + 1
              Visited(o) == Append(bvisited, [outcome |-> o,
                                              confidence |-> 0])
          IN  IF ~resolved
              THEN /\ bvisited' = Visited("unresolved")
                   /\ UNCHANGED <<bpc, bexit, best_trade>>
              ELSE IF stop_flag
              THEN /\ BReturn("stop_in_loop")
                   /\ UNCHANGED <<bvisited, best_trade>>
              ELSE IF open_position
              THEN /\ bvisited' = Visited("in_trade")
                   /\ UNCHANGED <<bpc, bexit, best_trade>>
              ELSE IF EvaluationEnds(e.outcome) = "abort"
              THEN /\ BReturn("exception")
                   /\ UNCHANGED <<bvisited, best_trade>>
              ELSE /\ bvisited' = Append(bvisited, e)
                   /\ best_trade' =
                         IF BetterTrade(e, best_trade)
                         THEN [sym |-> sym, confidence |-> e.confidence]
                         ELSE best_trade
                   /\ UNCHANGED <<bpc, bexit>>
    /\ UNCHANGED <<stop_flag, placed, managed>>
    /\ UNCHANGED <<coreVars, levVars, candVars>>

\* lines 385-391 and 417-418, after the loop
BLoopEnd ==
    /\ bpc = "loop"
    /\ Len(bvisited) = NumSymbols
    /\ IF stop_flag THEN BReturn("stop_before_trade")
       ELSE /\ bpc' = (IF best_trade # NoTrade THEN "approve" ELSE "manage")
            /\ UNCHANGED bexit
    /\ UNCHANGED <<stop_flag, bvisited, best_trade, placed, managed>>
    /\ UNCHANGED <<coreVars, levVars, candVars>>

\* lines 392-403: the approval prompt when AUTO_MODE is off, then get_balance
BApprove ==
    /\ bpc = "approve"
    /\ \E AUTO_MODE \in BOOLEAN, approved \in BOOLEAN :
          IF ~AUTO_MODE /\ ~approved THEN BReturn("not_approved")
          ELSE bpc' = "place" /\ UNCHANGED bexit
    /\ UNCHANGED <<stop_flag, bvisited, best_trade, placed, managed>>
    /\ UNCHANGED <<coreVars, levVars, candVars>>

\* lines 405-409: should_stop() before placing reads the flag file
BPlaceCheck ==
    /\ bpc = "place"
    /\ IF stop_flag THEN BReturn("stop_before_place")
       ELSE bpc' = "placing" /\ UNCHANGED bexit
    /\ UNCHANGED <<stop_flag, bvisited, best_trade, placed, managed>>
    /\ UNCHANGED <<coreVars, levVars, candVars>>

\* lines 411-416: place_trade for the best trade
BPlace ==
    /\ bpc = "placing"
    /\ placed' = Append(placed, best_trade.sym)
    /\ bpc' = "manage"
    /\ UNCHANGED <<stop_flag, bvisited, best_trade, managed, bexit>>
    /\ UNCHANGED <<coreVars, levVars, candVars>>

\* lines 420-424: should_stop() before management reads the flag file
BManageCheck ==
    /\ bpc = "manage"
    /\ IF stop_flag THEN BReturn("stop_before_manage")
       ELSE bpc' = "managing" /\ UNCHANGED bexit
    /\ UNCHANGED <<stop_flag, bvisited, best_trade, placed, managed>>
    /\ UNCHANGED <<coreVars, levVars, candVars>>

\* lines 426-427: manage_open_trades, then the shutdown
BManage ==
    /\ bpc = "managing"
    /\ managed' = TRUE
    /\ BReturn("completed")
    /\ UNCHANGED <<stop_flag, bvisited, best_trade, placed>>
    /\ UNCHANGED <<coreVars, levVars, candVars>>

\* main_entry, lines 448-464, once run_bot has returned and the sleep is
\* over: with the flag file it shuts down, removes the file and exits the
\* process (no bot is left running); without it it calls run_bot again
BMainLoop ==
    /\ bpc = "exit"
    /\ bpc' = (IF stop_flag THEN "idle" ELSE "init")
    /\ stop_flag' = FALSE
    /\ bvisited' = <<>>
    /\ best_trade' = NoTrade
    /\ placed' = <<>>
    /\ managed' = FALSE
    /\ bexit' = None
    /\ UNCHANGED <<coreVars, levVars, candVars>>

BNext ==
    \/ BStopRequested
    \/ BEnter
    \/ BSymbol
    \/ BLoopEnd
    \/ BApprove
    \/ BPlaceCheck
    \/ BPlace
    \/ BManageCheck
    \/ BManage
    \/ BMainLoop

BInit == BStart /\ ZIdle /\ PIdle /\ RIdle /\ FIdle /\ OIdle /\ CfgShipped
        /\ LIdle /\ KIdle
        /\ MoreIdle

SpecRunBot == BInit /\ [][BNext]_vars

\* run_bot is past its symbol loop (it entered it and is no longer in it)
LoopLeft ==
    /\ bpc \notin {"idle", "init", "loop"}
    /\ bexit \notin {"init_failed", "stop_before_run", "outside_hours"}

\* C19: once run_bot has left its symbol loop, every symbol of the active
\* list went through the loop body, whatever the evaluations returned or
\* raised, unless the loop was left on a stop request.
C19_BatchNotAborted ==
    LoopLeft =>
        \/ Len(bvisited) = NumSymbols
        \/ bexit = "stop_in_loop" /\ stop_flag

\* C19 witness: no stop request; the evaluation of the first symbol raised,
\* that of the second was rejected, and the last symbol was still
\* evaluated and became the best trade
C19_Witness ==
    /\ LoopLeft
    /\ ~stop_flag
    /\ Len(bvisited) = NumSymbols
    /\ bvisited[1].outcome = "exception"
    /\ bvisited[2].outcome = "rejected"
    /\ bvisited[NumSymbols].outcome = "decision"
    /\ best_trade.sym = NumSymbols

-----------------------------------------------------------------------------
(* momentum_strategy.py and bollinger_strategy.py: the direction-vote
   signals on one series *)

\* what a call of a signal does: it raises (IndexError of df.iloc) or it
\* returns 'BUY', 'SELL' or None
SignalRaised == [raised |-> TRUE, value |-> None]
SignalReturned(v) == [raised |-> FALSE, value |-> v]

\* momentum_strategy.py line 6: `df is None or df.empty`
momentum_guard(df) == Len(df) = 0

\* momentum_signal(df), lines 4-17: the closes read are df.iloc[-1] and
\* df.iloc[-2]
momentum_signal(df) ==
    IF momentum_guard(df) THEN SignalReturned(None)
    ELSE IF Len(df) < 2 THEN SignalRaised
    ELSE LET recent_close == df[Len(df)]
             previous_close == df[Len(df) - 1]
         IN  IF recent_close > previous_close THEN SignalReturned("BUY")
             ELSE IF recent_close < previous_close THEN SignalReturned("SELL")
             ELSE SignalReturned(None)

\* the window of the rolling mean and deviation (lines 9, 14, 15)
BOLLINGER_WINDOW == 20

\* the sum of f over the last BOLLINGER_WINDOW closes of df
RollingSum(df, f(_)) ==
    LET n == Len(df)
        acc[k \in 0..BOLLINGER_WINDOW] ==
            IF k = 0 THEN 0 ELSE acc[k - 1] + f(df[n + 1 - k])
    IN  acc[BOLLINGER_WINDOW]

\* bollinger_signal(df), lines 7-26.  With S the sum and Q the sum of the
\* squares of the last 20 closes, ma20 = S / 20 and stddev (pandas, ddof = 1)
\* is sqrt((20 * Q - S * S) / (20 * 19)); last_close beyond ma20 by more
\* than 2 * stddev is 19 * (20 * last_close - S)^2 > 80 * (20 * Q - S * S)
bollinger_signal(df) ==
    IF Len(df) < BOLLINGER_WINDOW THEN SignalReturned(None)
    ELSE LET S == RollingSum(df, LAMBDA x : x)
             Q == RollingSum(df, LAMBDA x : x * x)
             D == BOLLINGER_WINDOW * df[Len(df)] - S
             V == BOLLINGER_WINDOW * Q - S * S
             beyond == (BOLLINGER_WINDOW - 1) * D * D
                           > 4 * BOLLINGER_WINDOW * V
         IN  IF D > 0 /\ beyond THEN SignalReturned("SELL")
             ELSE IF D < 0 /\ beyond THEN SignalReturned("BUY")
             ELSE SignalReturned(None)

-----------------------------------------------------------------------------
(* The signals on bounded series *)

\* the series: up to SignalFlat bars at one close, then up to SignalTail
\* bars at any close
SignalSeries ==
    {[i \in 1..n |-> p] \o t :
        n \in 0..SignalFlat, p \in 0..SignalPrice,
        t \in UNION {[1..k -> 0..SignalPrice] : k \in 0..SignalTail}}

SStart ==
    /\ sdf \in SignalSeries
    /\ spc = "ready"
    /\ sresult = None

\* line 203 of main.py: momentum_dir = momentum_signal(df_m15)
Smomentum_signal ==
    /\ spc = "ready"
    /\ sresult' = momentum_signal(sdf)
    /\ spc' = "momentum"
    /\ UNCHANGED sdf
    /\ UNCHANGED <<baseVars, execVars, mgrVars, tfVars, extrVars>>

\* line 204 of main.py: bollinger_dir = bollinger_signal(df_m15)
Sbollinger_signal ==
    /\ spc = "ready"
    /\ sresult' = bollinger_signal(sdf)
    /\ spc' = "bollinger"
    /\ UNCHANGED sdf
    /\ UNCHANGED <<baseVars, execVars, mgrVars, tfVars, extrVars>>

SNext == Smomentum_signal \/ Sbollinger_signal

BaseIdle ==
    /\ ZIdle /\ PIdle /\ RIdle /\ FIdle /\ OIdle /\ CfgShipped
    /\ LIdle /\ KIdle /\ BIdle

SInit == SStart /\ BaseIdle /\ XIdle /\ MIdle /\ TIdle /\ EIdle

SpecSignals == SInit /\ [][SNext]_vars

\* C21: on a series too short for it (fewer than 2 bars for the momentum
\* signal, fewer than 20 for the Bollinger signal) the signal returns None
\* and does not raise.
C21_ShortSeriesIsNone ==
    /\ (spc = "momentum" /\ Len(sdf) < 2) => sresult = SignalReturned(None)
    /\ (spc = "bollinger" /\ Len(sdf) < BOLLINGER_WINDOW)
          => sresult = SignalReturned(None)

-----------------------------------------------------------------------------
\* C22: within one evaluation the reversal verdict of the gate (line 279)
\* and the verdict of every reversal engine call of the zone scan agree.
C22_ReversalVerdictsAgree ==
    (USE_REVERSAL_FILTER /\ Scanned) =>
        \A i \in 1..Len(scan_calls) :
            QuorumReached(scan_calls[i]) = QuorumReached(reversal_gate)

-----------------------------------------------------------------------------
\* the reason lines of the gates before the reversal gate
EarlyRejections ==
    {"[DATA] Missing candles",
     "[REJECTED] No direction from indicators.",
     "[REJECTED] M15 pattern conflicts.",
     "[SKIP] Below confidence threshold."}

\* the reason lines of the zone gate
ZoneRejections ==
    {"[REJECTED] Not in demand zone on any TF.",
     "[REJECTED] Not in supply zone on any TF."}

\* neither the reversal engine nor the zone scan was invoked
EnginesNotInvoked ==
    reversal_gate = <<>> /\ scan_calls = <<>> /\ df_dict = <<>>

C24_WitnessSkipped ==
    /\ opc = "done"
    /\ message = "[SKIP] Below confidence threshold."
    /\ reasons # <<>>
    /\ EnginesNotInvoked

-----------------------------------------------------------------------------
(* One timeframe of the reversal consensus engine *)

TfLevels == 0..TfLevel

\* swing points of a series: at most two of each kind
TfSwings == {S \in SUBSET TfLevels : Cardinality(S) <= 2}

\* what fetch_candles_fn can deliver for the timeframe
TimeframeInputs ==
    {[TimeframeDefault EXCEPT !.have = h] : h \in {"None", "short"}}
    \cup {[TimeframeDefault EXCEPT !.have = "full", !.choppy = TRUE,
                                   !.pattern_match = TRUE]}
    \cup [have : {"full"}, choppy : {FALSE}, pattern_match : BOOLEAN,
          swing_lows : TfSwings, swing_highs : TfSwings,
          c1 : TfLevels, c5 : TfLevels, c10 : TfLevels,
          opposing : 0..MaxOpposing]

TStart ==
    /\ tdata \in TimeframeInputs
    /\ tdir \in Directions
    /\ tpc = "fetched"
    /\ tchecks = None

\* lines 74-124: the body of the loop for the timeframe
TJudge ==
    /\ tpc = "fetched"
    /\ tchecks' = [near_zone |-> NearZone(tdata),
                   broke_level |-> BrokeLevel(tdata, tdir),
                   verdict |-> TimeframeVerdict(tdata, tdir)]
    /\ tpc' = "judged"
    /\ UNCHANGED <<tdata, tdir>>
    /\ UNCHANGED <<baseVars, sigVars, execVars, mgrVars, extrVars>>

TNext == TJudge

TInit == TStart /\ BaseIdle /\ SIdle /\ XIdle /\ MIdle /\ EIdle

SpecTimeframe == TInit /\ [][TNext]_vars

\* a level of the timeframe lies within the proximity threshold of its
\* last close: a swing low below the close or a swing high above it
LevelNearby ==
    \/ \E x \in tdata.swing_lows :
          x < tdata.c1 /\ tdata.c1 - x <= SR_THRESHOLD
    \/ \E x \in tdata.swing_highs :
          x > tdata.c1 /\ x - tdata.c1 <= SR_THRESHOLD

\* C25: a timeframe is counted as confirming if and only if it has the
\* required bars, is not skipped as choppy, is not skipped as an ambiguous
\* zone, and a pattern matches or the momentum fades with at least 2
\* opposing bars.
C25_ConfirmingTimeframe ==
    tpc = "judged" =>
        (tchecks.verdict = "confirmed"
         <=> /\ tdata.have = "full"
             /\ ~tdata.choppy
             /\ ~(LevelNearby /\ ~tchecks.broke_level)
             /\ \/ tdata.pattern_match
                \/ /\ Abs(tdata.c1 - tdata.c5) < Abs(tdata.c5 - tdata.c10)
                   /\ tdata.opposing >= 2)

\* C25 witness: no pattern matches, the momentum fades against two
\* opposing bars and no level is near: the timeframe is confirmed
C25_Witness ==
    /\ tpc = "judged"
    /\ ~tdata.pattern_match
    /\ tdata.swing_lows # {}
    /\ ~LevelNearby
    /\ tchecks.verdict = "confirmed"

\* C25, the skipped case: a pattern matches next to a level and the
\* timeframe is not counted
C25_WitnessSkipped ==
    /\ tpc = "judged"
    /\ tdata.have = "full" /\ ~tdata.choppy
    /\ tdata.pattern_match
    /\ LevelNearby
    /\ tchecks.verdict = "skipped"

\* C26: broke_level is false on every timeframe and for both directions,
\* and a timeframe whose close is within the proximity threshold of a
\* level is skipped.
C26_NeverBroken ==
    (tpc = "judged" /\ tdata.have = "full" /\ ~tdata.choppy) =>
        /\ ~tchecks.broke_level
        /\ LevelNearby => tchecks.verdict = "skipped"

\* C26 witness: a SELL timeframe with a support further below the close
\* than the threshold and a resistance right above it is skipped although
\* a pattern matches
C26_Witness ==
    /\ tpc = "judged"
    /\ tdir = "SELL"
    /\ tdata.have = "full" /\ ~tdata.choppy
    /\ \E x \in tdata.swing_lows : tdata.c1 - x > SR_THRESHOLD
    /\ \E x \in tdata.swing_highs : x = tdata.c1 + 1
    /\ tdata.pattern_match
    /\ ~tchecks.broke_level
    /\ tchecks.verdict = "skipped"

-----------------------------------------------------------------------------
(* pattern_detector.py: the detectors on a window of bars.  A bar is
   [low, high, close]; prices are whole ticks of 0.0001 *)

\* the `order` argument of find_local_extrema at every call site
EXTREMA_ORDER == 5

\* lines 14-25, the local fallback: range(order, n - order), each candidate
\* compared with `order` bars on its left and on its right
ExtremaLocal(v, Beyond(_, _)) ==
    {i \in 1..Len(v) :
        /\ i - EXTREMA_ORDER >= 1
        /\ i + EXTREMA_ORDER <= Len(v)
        /\ \A q \in (i - EXTREMA_ORDER)..(i + EXTREMA_ORDER) :
              q # i => Beyond(v[i], v[q])}

\* lines 9-12, scipy.signal.argrelextrema with its default mode 'clip':
\* every index is a candidate and a neighbour beyond an edge is the edge
ExtremaScipy(v, Beyond(_, _)) ==
    {i \in 1..Len(v) :
        \A shift \in 1..EXTREMA_ORDER :
            /\ Beyond(v[i], v[Min2(i + shift, Len(v))])
            /\ Beyond(v[i], v[Max2(i - shift, 1)])}

\* _extrema(prices, order=5): the indices of the local minima and of the
\* local maxima, ascending
_extrema(v, scipy) ==
    [local_min |-> SortedAsc(IF scipy
                             THEN ExtremaScipy(v, LAMBDA a, b : a <= b)
                             ELSE ExtremaLocal(v, LAMBDA a, b : a <= b)),
     local_max |-> SortedAsc(IF scipy
                             THEN ExtremaScipy(v, LAMBDA a, b : a >= b)
                             ELSE ExtremaLocal(v, LAMBDA a, b : a >= b))]

Lows(df) == [i \in 1..Len(df) |-> df[i].low]
Highs(df) == [i \in 1..Len(df) |-> df[i].high]

\* the sum of a column
SeqSum(s) ==
    LET acc[k \in 0..Len(s)] == IF k = 0 THEN 0 ELSE acc[k - 1] + s[k]
    IN  acc[Len(s)]

\* seq[-k], counted from the end
FromEnd(seq, k) == seq[Len(seq) + 1 - k]

\* lines 30-34; 1e-3 is 10 ticks
detect_double_bottom(df, scipy) ==
    LET local_min == _extrema(Lows(df), scipy).local_min
    IN  /\ Len(local_min) >= 2
        /\ Abs(df[FromEnd(local_min, 1)].low
               - df[FromEnd(local_min, 2)].low) < 10

\* lines 36-40
detect_double_top(df, scipy) ==
    LET local_max == _extrema(Highs(df), scipy).local_max
    IN  /\ Len(local_max) >= 2
        /\ Abs(df[FromEnd(local_max, 1)].high
               - df[FromEnd(local_max, 2)].high) < 10

\* lines 42-45, with tolerance = per_mille / 1000:
\* high.max() - low.min() <= tolerance * close.mean()
detect_rectangle(df, per_mille) ==
    /\ df # <<>>
    /\ LET spread == SetMax(Range(Highs(df))) - SetMin(Range(Lows(df)))
           closes == SeqSum([i \in 1..Len(df) |-> df[i].close])
       IN  1000 * Len(df) * spread <= per_mille * closes

\* lines 47-57: both index arrays come from the lows
detect_head_and_shoulders(df, scipy) ==
    LET low_mins == _extrema(Lows(df), scipy).local_min
        high_maxs == _extrema(Lows(df), scipy).local_max
    IN  /\ Len(high_maxs) >= 3 /\ Len(low_mins) >= 2
        /\ LET left == df[FromEnd(high_maxs, 3)].high
               head == df[FromEnd(high_maxs, 2)].high
               right == df[FromEnd(high_maxs, 1)].high
               valley1 == df[FromEnd(low_mins, 2)].low
               valley2 == df[FromEnd(low_mins, 1)].low
           IN  /\ head > left /\ head > right
               /\ 100 * Abs(left - right) < 3 * Max2(left, right)
               /\ valley1 < left /\ valley2 < right

\* lines 59-69
detect_inverse_head_and_shoulders(df, scipy) ==
    LET low_mins == _extrema(Lows(df), scipy).local_min
        high_maxs == _extrema(Lows(df), scipy).local_max
    IN  /\ Len(low_mins) >= 3 /\ Len(high_maxs) >= 2
        /\ LET left == df[FromEnd(low_mins, 3)].low
               head == df[FromEnd(low_mins, 2)].low
               right == df[FromEnd(low_mins, 1)].low
               peak1 == df[FromEnd(high_maxs, 2)].high
               peak2 == df[FromEnd(high_maxs, 1)].high
           IN  /\ head < left /\ head < right
               /\ 100 * Abs(left - right) < 3 * Max2(left, right)
               /\ peak1 > head /\ peak2 > head

\* the last two local minima of the lows and local maxima of the highs,
\* as the triangle and wedge detectors read them (e.g. lines 72-76)
LastTwo(df, scipy) ==
    LET low_idxs == _extrema(Lows(df), scipy).local_min
        high_idxs == _extrema(Highs(df), scipy).local_max
    IN  IF Len(low_idxs) < 2 \/ Len(high_idxs) < 2
        THEN [have |-> FALSE, low_vals |-> <<0, 0>>, high_vals |-> <<0, 0>>]
        ELSE [have |-> TRUE,
              low_vals |-> <<df[FromEnd(low_idxs, 2)].low,
                             df[FromEnd(low_idxs, 1)].low>>,
              high_vals |-> <<df[FromEnd(high_idxs, 2)].high,
                              df[FromEnd(high_idxs, 1)].high>>]

\* lines 71-79, tol = 0.005 of the mean of the two highs
detect_ascending_triangle(df, scipy) ==
    LET t == LastTwo(df, scipy)
    IN  /\ t.have
        /\ t.low_vals[2] > t.low_vals[1]
        /\ 2000 * Abs(t.high_vals[2] - t.high_vals[1])
              < 5 * (t.high_vals[1] + t.high_vals[2])

\* lines 81-89
detect_descending_triangle(df, scipy) ==
    LET t == LastTwo(df, scipy)
    IN  /\ t.have
        /\ 2000 * Abs(t.low_vals[2] - t.low_vals[1])
              < 5 * (t.low_vals[1] + t.low_vals[2])
        /\ t.high_vals[2] < t.high_vals[1]

\* lines 91-102, tol = 0.01
detect_symmetric_triangle(df, scipy) ==
    LET t == LastTwo(df, scipy)
        gap1 == t.high_vals[1] - t.low_vals[1]
        gap2 == t.high_vals[2] - t.low_vals[2]
    IN  /\ t.have
        /\ t.low_vals[2] > t.low_vals[1]
        /\ t.high_vals[2] < t.high_vals[1]
        /\ 100 * gap2 < 99 * gap1

\* lines 104-116
detect_wedge(df, scipy) ==
    LET t == LastTwo(df, scipy)
        delta_low == t.low_vals[2] - t.low_vals[1]
        delta_high == t.high_vals[2] - t.high_vals[1]
        width1 == t.high_vals[1] - t.low_vals[1]
        width2 == t.high_vals[2] - t.low_vals[2]
    IN  /\ t.have
        /\ delta_low * delta_high > 0
        /\ width2 < width1

\* lines 118-124
detect_flag(df) ==
    LET n == Len(df)
        half == SubSeq(df, 1, n \div 2)
    IN  /\ n >= 10
        /\ 100 * Abs(half[Len(half)].close - half[1].close)
              > 2 * half[1].close
        /\ detect_rectangle(SubSeq(df, n \div 2 + 1, n), 3)

\* lines 126-130: df.iloc[- n//3 :] is the last ceil(n / 3) bars
detect_pennant(df, scipy) ==
    LET n == Len(df)
    IN  /\ n >= 10
        /\ detect_wedge(SubSeq(df, n - (n + 2) \div 3 + 1, n), scipy)

\* lines 132-144
detect_cup_and_handle(df) ==
    LET n == Len(df)
        third == n \div 3
        cup == SubSeq(df, 1, 2 * third)
        handle == SubSeq(df, 2 * third + 1, n)
        highs == SeqSum(Highs(cup))
        trough == SetMin(Range(Lows(cup)))
    IN  /\ n >= 12
        /\ ~(100 * Len(cup) * Abs(cup[1].high - cup[Len(cup)].high) > highs)
        /\ ~(100 * Len(cup) * trough > 98 * highs)
        /\ detect_rectangle(handle, 5)

\* the entries i of `patterns` (lines 147-160) with patterns[i].func(df)
\* true
PatternsMatched(df, scipy) ==
    {i \in 1..Len(patterns) :
        CASE i = 1 -> detect_double_bottom(df, scipy)
          [] i = 2 -> detect_double_top(df, scipy)
          [] i = 3 -> detect_head_and_shoulders(df, scipy)
          [] i = 4 -> detect_inverse_head_and_shoulders(df, scipy)
          [] i = 5 -> detect_ascending_triangle(df, scipy)
          [] i = 6 -> detect_descending_triangle(df, scipy)
          [] i = 7 -> detect_symmetric_triangle(df, scipy)
          [] i = 8 -> detect_wedge(df, scipy)
          [] i = 9 -> detect_flag(df)
          [] i = 10 -> detect_pennant(df, scipy)
          [] i = 11 -> detect_cup_and_handle(df)
          [] i = 12 -> detect_rectangle(df, 2)}

-----------------------------------------------------------------------------
(* detect_pattern on bounded windows *)

\* the prices of a window: PatternBase ticks plus a multiple of PatternStep
PatternPrices == {PatternBase + PatternStep * k : k \in 0..PatternPrice}

PatternBars ==
    {b \in [low : PatternPrices, high : PatternPrices, close : PatternPrices] :
        b.low <= b.close /\ b.close <= b.high}

\* the windows: up to PatternFree bars of any kind, then up to PatternFlat
\* equal bars
PatternWindows ==
    {t \o [i \in 1..n |-> b] :
        t \in UNION {[1..k -> PatternBars] : k \in 0..PatternFree},
        n \in 0..PatternFlat, b \in PatternBars}

EStart ==
    /\ edf \in PatternWindows
    /\ escipy \in BOOLEAN
    /\ eexpected \in Signals
    /\ epc = "ready"
    /\ eresult = NoPattern

\* detect_pattern(df, expected_direction)
Edetect_pattern ==
    /\ epc = "ready"
    /\ eresult' = detect_pattern(PatternsMatched(edf, escipy), eexpected)
    /\ epc' = "done"
    /\ UNCHANGED <<edf, escipy, eexpected>>
    /\ UNCHANGED <<baseVars, sigVars, execVars, mgrVars, tfVars>>

ENext == Edetect_pattern

EInit == EStart /\ BaseIdle /\ SIdle /\ XIdle /\ MIdle /\ TIdle

SpecDetectors == EInit /\ [][ENext]_vars

\* C27: on a window shorter than 12 bars detect_pattern returns no BUY and
\* no SELL match.
C27_ShortWindowNoDirection ==
    (epc = "done" /\ Len(edf) < 12) => eresult.direction \notin Directions

\* on a window shorter than 12 bars detect_pattern returns no BUY and no
\* SELL match when the import of scipy failed
ShortWindowNoDirectionLocal ==
    (epc = "done" /\ Len(edf) < 12 /\ ~escipy)
        => eresult.direction \notin Directions

\* on the 3 bars find_zones_fallback passes, argrelextrema finds a match
\* of the expected direction
ShortWindowMatchScipy ==
    /\ epc = "done" /\ Len(edf) = 3 /\ escipy
    /\ eexpected \in Directions
    /\ eresult.direction = eexpected

\* a window of 12 bars with a BUY match when the import of scipy failed
LongWindowMatchLocal ==
    /\ epc = "done" /\ Len(edf) = 12 /\ ~escipy
    /\ eresult.direction = "BUY"

-----------------------------------------------------------------------------
(* execution.py and risk.py: the volume of the order place_trade sends.
   Volumes are whole hundredths of a lot, money is whole cents, the balance
   whole dollars; the symbol info is available and has tick_value and
   tick_size *)

\* risk_percent of place_trade (its default; run_bot passes none)
RISK_PERCENT == 1

\* round(n / d) of Python for n >= 0 and d > 0: halves go to the even
\* neighbour
RoundHalfEven(n, d) ==
    LET q == n \div d
        r == n % d
    IN  IF 2 * r < d THEN q
        ELSE IF 2 * r > d THEN q + 1
        ELSE IF q % 2 = 0 THEN q ELSE q + 1

\* _round_volume_to_broker(symbol, vol) for vol = num / den, lines 37-45
_round_volume_to_broker(info, num, den) ==
    LET vol == RoundHalfEven(num, den * info.volume_step) * info.volume_step
    IN  Max2(info.volume_min, Min2(vol, info.volume_max))

\* balance * (risk_percent / 100.0), in cents (execution.py line 112,
\* risk.py line 51)
RiskBudget(balance) == balance * RISK_PERCENT

\* _monetary_risk_for_lot, lines 48-62, in cents: unit_risk is what a
\* hundredth of a lot loses over the entry-to-stop distance
_monetary_risk_for_lot(unit_risk, lot) == lot * unit_risk

\* calculate_risk_lot_size, risk.py lines 34-85, for a positive stop
\* distance: sl_pips * pip_value_per_lot is the loss of one lot
calculate_risk_lot_size(balance, unit_risk, info) ==
    IF balance <= 0 THEN info.volume_min
    ELSE LET lot == RoundHalfEven(RiskBudget(balance),
                                  unit_risk * info.volume_step)
                        * info.volume_step
         IN  Max2(info.volume_min, Min2(lot, info.volume_max))

\* the lot_size argument: None, or a volume
NoLot == [given |-> FALSE, lot |-> 0]
Lot(l) == [given |-> TRUE, lot |-> l]

\* the volume of the request of place_trade, lines 107-128 and 148
place_trade(in) ==
    LET risk_budget == RiskBudget(in.balance)
        sized == IF in.lot_size.given
                 THEN (IF in.lot_size.lot = 0 THEN 1 ELSE in.lot_size.lot)
                 ELSE calculate_risk_lot_size(in.balance, in.unit_risk,
                                              in.info)
        lot_size == _round_volume_to_broker(in.info, sized, 1)
        actual_risk == _monetary_risk_for_lot(in.unit_risk, lot_size)
    IN  IF actual_risk > risk_budget /\ risk_budget > 0
        THEN _round_volume_to_broker(in.info, lot_size * risk_budget,
                                     actual_risk)
        ELSE lot_size

-----------------------------------------------------------------------------
(* place_trade on bounded accounts and symbols *)

\* volume_step, volume_min and volume_max of the symbol
SymbolInfos ==
    {i \in [volume_step : 1..MaxStep, volume_min : 1..MaxStep,
            volume_max : 1..MaxLot] : i.volume_min <= i.volume_max}

\* the calls: the balance place_trade works with (the caller's, or the
\* account's, or 0.0 when reading it raised), the loss of a hundredth of a
\* lot at the stop, and the lot_size argument: None, a volume, or (line 411
\* of main.py, the balance as third positional argument) the balance in lots
PlaceTradeCalls ==
    {c \in [balance : 0..MaxBalance, unit_risk : 1..MaxUnitRisk,
            info : SymbolInfos,
            lot_size : {NoLot} \cup {Lot(l) : l \in 1..MaxLot}
                       \cup {Lot(100 * b) : b \in 0..MaxBalance}] :
        c.lot_size.lot > MaxLot => c.lot_size.lot = 100 * c.balance}

XStart ==
    /\ xin \in PlaceTradeCalls
    /\ xpc = "ready"
    /\ xorder = 0

\* lines 78-81, 102-104, 140-143: no rates, or a stop or target that is
\* invalid or too close: no order
Xskip ==
    /\ xpc = "ready"
    /\ xpc' = "skipped"
    /\ UNCHANGED <<xin, xorder>>
    /\ UNCHANGED <<baseVars, sigVars, mgrVars, tfVars, extrVars>>

\* line 158: mt5.order_send(req) with req["volume"] = lot_size
Xorder_send ==
    /\ xpc = "ready"
    /\ xorder' = place_trade(xin)
    /\ xpc' = "sent"
    /\ UNCHANGED xin
    /\ UNCHANGED <<baseVars, sigVars, mgrVars, tfVars, extrVars>>

XNext == Xskip \/ Xorder_send

XInit == XStart /\ BaseIdle /\ SIdle /\ MIdle /\ TIdle /\ EIdle

SpecExecution == XInit /\ [][XNext]_vars

\* C23: the order place_trade sends risks at most risk_percent percent of
\* the balance.
C23_RiskWithinBudget ==
    xpc = "sent" =>
        _monetary_risk_for_lot(xin.unit_risk, xorder)
            <= RiskBudget(xin.balance)

\* the same for the calls whose balance covers the risk of the broker's
\* smallest volume and whose budget is a whole number of volume steps
RiskWithinBudgetAboveMinimum ==
    (/\ xpc = "sent"
     /\ xin.info.volume_min * xin.unit_risk <= RiskBudget(xin.balance)
     /\ xin.info.volume_min % xin.info.volume_step = 0
     /\ RiskBudget(xin.balance) % (xin.unit_risk * xin.info.volume_step) = 0)
        => _monetary_risk_for_lot(xin.unit_risk, xorder)
               <= RiskBudget(xin.balance)

-----------------------------------------------------------------------------
(* run_bot: what a cycle places, and the stop flag *)

\* the Decisions of the cycle: the symbols whose evaluation returned one
DecisionsOfCycle == {i \in 1..Len(bvisited) : bvisited[i].outcome = "decision"}

\* C28: in a cycle of run_bot at most one placement is attempted; it is for
\* a Decision of the cycle whose confidence no other Decision of the cycle
\* exceeds, and no earlier symbol has a Decision of the same confidence; a
\* symbol with an open position was not evaluated (it has no Decision) and
\* is not the one placed.
C28_OnePlacementOfTheBest ==
    /\ Len(placed) <= 1
    /\ \A k \in 1..Len(placed) :
          LET sym == placed[k]
          IN  /\ sym \in DecisionsOfCycle
              /\ \A i \in DecisionsOfCycle :
                    /\ bvisited[i].confidence <= bvisited[sym].confidence
                    /\ (bvisited[i].confidence = bvisited[sym].confidence)
                          => sym <= i
    /\ \A i \in 1..Len(bvisited) :
          bvisited[i].outcome = "in_trade"
              => /\ bvisited[i].confidence = 0
                 /\ i \notin Range(placed)
                 /\ best_trade # NoTrade => best_trade.sym # i

\* C28 witness: the first symbol has an open position, the second and the
\* third have Decisions of the same, highest, confidence, and the
\* placement was for the second
C28_Witness ==
    /\ Len(bvisited) = NumSymbols
    /\ bvisited[1].outcome = "in_trade"
    /\ bvisited[2] = [outcome |-> "decision", confidence |-> MaxConfidence]
    /\ bvisited[3] = [outcome |-> "decision", confidence |-> MaxConfidence]
    /\ placed = <<2>>

\* C29: place_trade and manage_open_trades are not called while the stop
\* flag exists.
C29_NoCallAfterStop ==
    [][(Len(placed') > Len(placed) \/ (managed' /\ ~managed))
          => ~stop_flag]_vars

\* the stop checks themselves never pass with the flag present
StopChecksHonourFlag ==
    [][(bpc \in {"place", "manage"} /\ bpc' \in {"placing", "managing"})
          => ~stop_flag]_vars

-----------------------------------------------------------------------------
(* trade_manager.py: manage_open_trades on one position.  Prices are whole
   points (10^-digits) of the symbol; a stop or target of 0 is none *)

\* round(x, digits) for x = fifths / 5 points, fifths >= 0: a multiple of a
\* fifth of a point is never halfway between two points
RoundFifths(fifths) == (fifths + 2) \div 5

\* lines 22-24
tp_dist(position) == Abs(position.tp - position.price_open)

\* lines 32-37, profit_ratio * tp_dist
Progress(position, current_price) ==
    IF position.type = "BUY" THEN current_price - position.price_open
    ELSE position.price_open - current_price

\* line 40, `profit_ratio >= 0.30`
LocksIn(position, current_price) ==
    10 * Progress(position, current_price) >= 3 * tp_dist(position)

\* lines 41-48, proposed_sl in fifths of a point: sl_pct is
\* profit_ratio - 0.20, so the stop proposed is the price less (BUY) or
\* plus (SELL) a fifth of the distance to the target
proposed_sl(position, current_price) ==
    IF position.type = "BUY" THEN 5 * current_price - tp_dist(position)
    ELSE 5 * current_price + tp_dist(position)

\* lines 45 and 48, `better`
better(position, current_price) ==
    \/ position.sl = 0
    \/ IF position.type = "BUY"
       THEN proposed_sl(position, current_price) > 5 * position.sl
       ELSE proposed_sl(position, current_price) < 5 * position.sl

\* lines 20-51: whether the call sends a request for the position
Modifies(position, current_price) ==
    /\ position.tp # 0
    /\ tp_dist(position) > 0
    /\ LocksIn(position, current_price)
    /\ better(position, current_price)

\* lines 52-60, the request
ModifyRequest(position, current_price) ==
    [sent |-> TRUE,
     sl |-> RoundFifths(proposed_sl(position, current_price)),
     tp |-> position.tp]

-----------------------------------------------------------------------------
(* manage_open_trades over ticks on bounded prices *)

\* the positions: the target, if any, is on the profit side of the entry
\* price
MgrPositions ==
    {q \in [type : Directions, price_open : 1..MgrPrice, sl : 0..MgrPrice,
            tp : 0..MgrPrice] :
        \/ q.tp = 0
        \/ IF q.type = "BUY" THEN q.tp > q.price_open
           ELSE q.tp < q.price_open}

MStart ==
    /\ mposition \in MgrPositions
    /\ mprice \in 1..MgrPrice
    /\ mpc = "tick"
    /\ mrequest = NoRequest

\* the market moves
MTick ==
    /\ mpc = "tick"
    /\ \E price \in 1..MgrPrice : mprice' = price /\ price # mprice
    /\ UNCHANGED <<mposition, mpc, mrequest>>
    /\ UNCHANGED <<baseVars, sigVars, execVars, tfVars, extrVars>>

\* manage_open_trades() reaches order_send (line 61) for the position
Mmanage_open_trades ==
    /\ mpc = "tick"
    /\ Modifies(mposition, mprice)
    /\ mrequest' = ModifyRequest(mposition, mprice)
    /\ mpc' = "sent"
    /\ UNCHANGED <<mposition, mprice>>
    /\ UNCHANGED <<baseVars, sigVars, execVars, tfVars, extrVars>>

\* the broker answers: TRADE_RETCODE_DONE and the position has the stop of
\* the request, or another retcode and the position is as it was (lines
\* 62-64)
MBroker ==
    /\ mpc = "sent"
    /\ \E done \in BOOLEAN :
          mposition' = IF done THEN [mposition EXCEPT !.sl = mrequest.sl]
                       ELSE mposition
    /\ mrequest' = NoRequest
    /\ mpc' = "tick"
    /\ UNCHANGED mprice
    /\ UNCHANGED <<baseVars, sigVars, execVars, tfVars, extrVars>>

MNext == MTick \/ Mmanage_open_trades \/ MBroker

MInit == MStart /\ BaseIdle /\ SIdle /\ XIdle /\ TIdle /\ EIdle

SpecTradeManager == MInit /\ [][MNext]_vars

\* C30: a modification request sets the stop strictly beyond the current
\* stop on the profit side, is sent only at a progress of at least 30% of
\* the distance to the target, places the stop at least 10% of that
\* distance beyond the entry price, and carries the target unchanged.
C30_StopOnlyTightens ==
    mpc = "sent" =>
        /\ mposition.sl # 0 =>
              IF mposition.type = "BUY" THEN mrequest.sl > mposition.sl
              ELSE mrequest.sl < mposition.sl
        /\ LocksIn(mposition, mprice)
        /\ IF mposition.type = "BUY"
           THEN 10 * (mrequest.sl - mposition.price_open)
                    >= tp_dist(mposition)
           ELSE 10 * (mposition.price_open - mrequest.sl)
                    >= tp_dist(mposition)
        /\ mrequest.tp = mposition.tp

\* what holds of every request: the stop is not moved back, the progress is
\* at least 30%, the stop is within half a point of 10% of the distance
\* beyond the entry price, the target is unchanged
StopNeverLoosens ==
    mpc = "sent" =>
        /\ mposition.sl # 0 =>
              IF mposition.type = "BUY" THEN mrequest.sl >= mposition.sl
              ELSE mrequest.sl <= mposition.sl
        /\ LocksIn(mposition, mprice)
        /\ IF mposition.type = "BUY"
           THEN 10 * (mrequest.sl - mposition.price_open) + 5
                    > tp_dist(mposition)
           ELSE 10 * (mposition.price_open - mrequest.sl) + 5
                    > tp_dist(mposition)
        /\ mrequest.tp = mposition.tp

\* a request that asks for the stop the position already has
RequestRepeatsStop ==
    /\ mpc = "sent"
    /\ mposition.sl # 0
    /\ mrequest.sl = mposition.sl

=============================================================================
